---- MODULE Spec2Model ----
(***************************************************************************)
(* The detection-to-actuation loop of the squirrel detector:               *)
(*   SquirrelDetectorApp.run  (src/src/squirrel/main.py, one class, one    *)
(*                             pin, colour/contour detector), and          *)
(*   WildlifeDetectorApp.run  (src/src/squirrel/main_ml.py, three classes, *)
(*                             one pin per class, YOLO detector).          *)
(*                                                                         *)
(* Time is in milliseconds.  clock is what time.time() returns.  A         *)
(* time.sleep(d) returns after at least d; the elapsed time is sampled     *)
(* from the grid ClockValues.  Confidences and thresholds are in percent.  *)
(***************************************************************************)
EXTENDS Integers, Sequences, FiniteSets, TLC

\* ------------------------------------------------------------------ bounds
\* The clock is sampled every ClockGrain ms, up to MaxClockTicks samples.
ClockGrain == 500
MaxClockTicks == 12
\* A sleep may overrun its duration by at most MaxOverrun grid samples.
MaxOverrun == 1

ClockValues == {k * ClockGrain : k \in 0..MaxClockTicks}

\* is_in_center is applied to every frame of up to MaxDim x MaxDim pixels and
\* every box with corner and size in 0..MaxDim (and to the 640x480 frames of
\* the scenarios).
MaxDim == 4

\* The centre region is computed for every frame of up to MaxRegionDim x
\* MaxRegionDim pixels (and for 640x480) and every whole percentage.
MaxRegionDim == 10

\* MLDetector.detect is applied to every result of up to MaxBoxes boxes.
MaxBoxes == 3

\* A camera object receives up to MaxCameraCalls calls.
MaxCameraCalls == 4

\* A video file holds up to MaxVideoFrames frames.
MaxVideoFrames == 2

\* A MockGPIOInterface object receives up to MaxGpioCalls calls.
MaxGpioCalls == 5

\* The application's MockMultiClassGPIO and the caller's dictionary receive up
\* to MaxMultiCalls calls and mutations.
MaxMultiCalls == 4

\* ------------------------------------------------------- program constants
trigger_cooldown == 2000
pulse_duration == 500
read_backoff == 100
frame_sleep == 33
\* MLDetector / SquirrelDetector defaults, in percent.
ml_confidence_threshold == 25
sd_confidence_threshold == 50
center_threshold == 30
\* main.py --gpio-pin default
gpio_pin == 18

\* detector_ml.CLASS_NAMES: class id -> class name
CLASS_NAMES == (0 :> "squirrel") @@ (1 :> "skunk") @@ (2 :> "raccoon")

ClassNames == {CLASS_NAMES[i] : i \in DOMAIN CLASS_NAMES}

\* Python's None for optional tuples, and Some(x).
None == << >>
Some(x) == << x >>

\* dict.get(key, default) on a dict modelled as a function
Get(d, k, default) == IF k \in DOMAIN d THEN d[k] ELSE default

Min(a, b) == IF a <= b THEN a ELSE b

\* --------------------------------------------------------------- CenterGate
\* faulty variant: the threshold is taken for a pixel count
RegionSize_unscaled(dim, thr) == dim * thr

\* int(dimension * center_threshold), the threshold given in percent.  On the
\* dimensions 0..11, 480, 640, 1080, 1920 with any whole percentage the
\* double product truncates to this integer.
RegionSize(dim, thr) == (dim * thr) \div 100

\* faulty variant: the region's end is its start plus its size
center_region_lopsided(frame_width, frame_height, thr) ==
    LET center_region_width == RegionSize(frame_width, thr)
        center_region_height == RegionSize(frame_height, thr)
        center_start_x == frame_width \div 2 - center_region_width \div 2
        center_start_y == frame_height \div 2 - center_region_height \div 2
    IN  <<center_start_x, center_start_x + center_region_width,
          center_start_y, center_start_y + center_region_height>>

\* the bounds is_in_center computes:
\* <<center_start_x, center_end_x, center_start_y, center_end_y>>
center_region(frame_width, frame_height, thr) ==
    LET center_region_width == RegionSize(frame_width, thr)
        center_region_height == RegionSize(frame_height, thr)
        center_start_x == frame_width \div 2 - center_region_width \div 2
        center_end_x == frame_width \div 2 + center_region_width \div 2
        center_start_y == frame_height \div 2 - center_region_height \div 2
        center_end_y == frame_height \div 2 + center_region_height \div 2
    IN  <<center_start_x, center_end_x, center_start_y, center_end_y>>

\* the rectangle _draw_debug draws for the centre region: <<x1, y1, x2, y2>>
draw_region(width, height, thr) ==
    LET center_region_width == RegionSize(width, thr)
        center_region_height == RegionSize(height, thr)
        center_x == width \div 2
        center_y == height \div 2
        x1 == center_x - center_region_width \div 2
        y1 == center_y - center_region_height \div 2
        x2 == center_x + center_region_width \div 2
        y2 == center_y + center_region_height \div 2
    IN  <<x1, y1, x2, y2>>

\* faulty variant: the region's bounds are excluded
SD_is_in_center_strict(frame, bbox, thr) ==
    IF bbox = None \/ frame = None THEN FALSE
    ELSE LET cx == bbox[1][1] + bbox[1][3] \div 2
             cy == bbox[1][2] + bbox[1][4] \div 2
             mx == frame[1].shape[2] \div 2
             my == frame[1].shape[1] \div 2
             rx == RegionSize(frame[1].shape[2], thr) \div 2
             ry == RegionSize(frame[1].shape[1], thr) \div 2
         IN  mx - rx < cx /\ cx < mx + rx /\ my - ry < cy /\ cy < my + ry

\* SquirrelDetector.is_in_center; shape = <<height, width>>, bbox an optional
\* <<x, y, w, h>>, frame an optional frame
SD_is_in_center(frame, bbox, thr) ==
    IF bbox = None \/ frame = None THEN FALSE
    ELSE LET x == bbox[1][1]
             y == bbox[1][2]
             w == bbox[1][3]
             h == bbox[1][4]
             frame_height == frame[1].shape[1]
             frame_width == frame[1].shape[2]
             bbox_center_x == x + w \div 2
             bbox_center_y == y + h \div 2
             center_region_width == RegionSize(frame_width, thr)
             center_region_height == RegionSize(frame_height, thr)
             center_start_x == frame_width \div 2 - center_region_width \div 2
             center_end_x == frame_width \div 2 + center_region_width \div 2
             center_start_y == frame_height \div 2 - center_region_height \div 2
             center_end_y == frame_height \div 2 + center_region_height \div 2
             in_center_x == center_start_x <= bbox_center_x /\ bbox_center_x <= center_end_x
             in_center_y == center_start_y <= bbox_center_y /\ bbox_center_y <= center_end_y
         IN  in_center_x /\ in_center_y

\* faulty variant: the box's corner is tested instead of its centre
ML_is_in_center_corner(frame, bbox, thr) ==
    SD_is_in_center(frame,
                    IF bbox = None THEN None ELSE Some(<<bbox[1][1], bbox[1][2], 0, 0>>),
                    thr)

\* faulty variant: a missing box or frame counts as centred
ML_is_in_center_open(frame, bbox, thr) ==
    IF bbox = None \/ frame = None THEN TRUE ELSE SD_is_in_center(frame, bbox, thr)

\* MLDetector.is_in_center
ML_is_in_center(frame, bbox, thr) ==
    IF bbox = None \/ frame = None THEN FALSE
    ELSE LET x == bbox[1][1]
             y == bbox[1][2]
             w == bbox[1][3]
             h == bbox[1][4]
             frame_height == frame[1].shape[1]
             frame_width == frame[1].shape[2]
             bbox_center_x == x + w \div 2
             bbox_center_y == y + h \div 2
             center_region_width == RegionSize(frame_width, thr)
             center_region_height == RegionSize(frame_height, thr)
             center_start_x == frame_width \div 2 - center_region_width \div 2
             center_end_x == frame_width \div 2 + center_region_width \div 2
             center_start_y == frame_height \div 2 - center_region_height \div 2
             center_end_y == frame_height \div 2 + center_region_height \div 2
             in_center_x == center_start_x <= bbox_center_x /\ bbox_center_x <= center_end_x
             in_center_y == center_start_y <= bbox_center_y /\ bbox_center_y <= center_end_y
         IN  in_center_x /\ in_center_y

\* ------------------------------------------------------------- MLDetector
\* self.model(frame, conf=self.confidence_threshold): the boxes YOLO returns
\* for the frame, candidates below the confidence threshold disregarded
YoloBoxes(frame, conf) ==
    SelectSeq(frame[1].boxes, LAMBDA box : box.conf >= conf)

\* faulty variant: a later box of equal confidence replaces the best one
RECURSIVE ML_best_last(_, _, _)
ML_best_last(boxes, i, best) ==
    IF i > Len(boxes) THEN best
    ELSE LET box == boxes[i]
         IN  ML_best_last(boxes, i + 1,
                          IF box.cls \in DOMAIN CLASS_NAMES /\ box.conf >= best.conf
                          THEN [box |-> Some(box), conf |-> box.conf,
                                class |-> Some(CLASS_NAMES[box.cls])]
                          ELSE best)

\* the loop "for box in result.boxes" of MLDetector.detect: the best box so
\* far after boxes i..Len(boxes), best = [box, conf, class]
RECURSIVE ML_best(_, _, _)
ML_best(boxes, i, best) ==
    IF i > Len(boxes) THEN best
    ELSE LET box == boxes[i]
         IN  ML_best(boxes, i + 1,
                     IF box.cls \in DOMAIN CLASS_NAMES /\ box.conf > best.conf
                     THEN [box |-> Some(box), conf |-> box.conf,
                           class |-> Some(CLASS_NAMES[box.cls])]
                     ELSE best)

NoDetection == [detected |-> FALSE, bbox |-> None, confidence |-> 0, class_name |-> None]

\* frame is None or frame.size == 0
EmptyFrame(frame) ==
    frame = None \/ frame[1].shape[1] = 0 \/ frame[1].shape[2] = 0

\* MLDetector.detect
ML_detect(frame, conf) ==
    IF EmptyFrame(frame) THEN NoDetection
    ELSE LET boxes == YoloBoxes(frame, conf)
             best == ML_best(boxes, 1, [box |-> None, conf |-> 0, class |-> None])
         IN  IF Len(boxes) = 0 \/ best.box = None THEN NoDetection
             ELSE LET xyxy == best.box[1].xyxy
                      x == xyxy[1]
                      y == xyxy[2]
                      w == xyxy[3] - xyxy[1]
                      h == xyxy[4] - xyxy[2]
                  IN  [detected |-> TRUE, bbox |-> Some(<<x, y, w, h>>),
                       confidence |-> best.conf, class_name |-> best.class]

\* faulty variant: the centre test left out
ML_detect_unchecked(frame, conf, thr) == ML_detect(frame, conf)

\* faulty variant: when the best detection is off-centre the best detection
\* of another class is tried
ML_detect_and_check_center_next(frame, conf, thr) ==
    LET d == ML_detect(frame, conf)
    IN  IF ~d.detected \/ d.bbox = None THEN NoDetection
        ELSE IF ML_is_in_center(frame, d.bbox, thr) THEN d
        ELSE LET others == SelectSeq(frame[1].boxes,
                                     LAMBDA box : box.cls \in DOMAIN CLASS_NAMES
                                                  /\ Some(CLASS_NAMES[box.cls]) # d.class_name)
                 d2 == ML_detect(Some([frame[1] EXCEPT !.boxes = others]), conf)
             IN  IF d2.detected /\ ML_is_in_center(frame, d2.bbox, thr) THEN d2
                 ELSE NoDetection

\* MLDetector.detect_and_check_center
ML_detect_and_check_center(frame, conf, thr) ==
    LET d == ML_detect(frame, conf)
    IN  IF ~d.detected \/ d.bbox = None THEN NoDetection
        ELSE IF ML_is_in_center(frame, d.bbox, thr) THEN d
        ELSE NoDetection

\* ------------------------------------------------------- SquirrelDetector
\* max(contours, key=cv2.contourArea): the first contour of largest area
RECURSIVE LargestContour(_, _, _)
LargestContour(contours, i, best) ==
    IF i > Len(contours) THEN best
    ELSE LargestContour(contours, i + 1,
                        IF contours[i].area > best.area THEN contours[i] ELSE best)

\* faulty variant: the boosted confidence is not capped at 1.0
SD_detect_uncapped(frame, conf) ==
    IF EmptyFrame(frame) THEN [detected |-> FALSE, bbox |-> None, confidence |-> <<0, 1>>]
    ELSE LET none == [detected |-> FALSE, bbox |-> None, confidence |-> <<0, 1>>]
             contours == frame[1].contours
             frame_area == frame[1].shape[1] * frame[1].shape[2]
         IN  IF Len(contours) = 0 THEN none
             ELSE LET largest_contour == LargestContour(contours, 2, contours[1])
                      area == largest_contour.area
                      w == largest_contour.rect[3]
                      h == largest_contour.rect[4]
                      bad_area == 100 * area < frame_area \/ 2 * area > frame_area
                      bad_aspect == h <= 0 \/ 2 * w < h \/ 2 * w > 5 * h
                      boosted == 4 * h <= 5 * w /\ 2 * w <= 3 * h
                      den == 10 * frame_area
                      base == Min(10 * area, frame_area)
                      num == IF boosted THEN 12 * base ELSE 10 * base
                  IN  IF bad_area \/ bad_aspect THEN none
                      ELSE [detected |-> num * 10 >= conf * frame_area,
                            bbox |-> Some(largest_contour.rect),
                            confidence |-> <<num, den>>]

\* SquirrelDetector.detect.  The confidence is the exact fraction
\* <<numerator, denominator>> with denominator 10 * frame area:
\*   min(area_ratio * 10, 1.0)          = 10 * min(10 * area, frame_area) / den
\*   min(that * 1.2, 1.0) when boosted  = min(12 * min(10 * area, frame_area), den) / den
SD_detect(frame, conf) ==
    IF EmptyFrame(frame) THEN [detected |-> FALSE, bbox |-> None, confidence |-> <<0, 1>>]
    ELSE LET none == [detected |-> FALSE, bbox |-> None, confidence |-> <<0, 1>>]
             contours == frame[1].contours
             frame_area == frame[1].shape[1] * frame[1].shape[2]
         IN  IF Len(contours) = 0 THEN none
             ELSE LET largest_contour == LargestContour(contours, 2, contours[1])
                      area == largest_contour.area
                      w == largest_contour.rect[3]
                      h == largest_contour.rect[4]
                      \* area < min_area or area > max_area
                      bad_area == 100 * area < frame_area \/ 2 * area > frame_area
                      \* aspect_ratio < 0.5 or aspect_ratio > 2.5 (0 when h = 0)
                      bad_aspect == h <= 0 \/ 2 * w < h \/ 2 * w > 5 * h
                      \* 0.8 <= aspect_ratio <= 1.5
                      boosted == 4 * h <= 5 * w /\ 2 * w <= 3 * h
                      den == 10 * frame_area
                      base == Min(10 * area, frame_area)
                      num == IF boosted THEN Min(12 * base, den) ELSE 10 * base
                  IN  IF bad_area \/ bad_aspect THEN none
                      ELSE [detected |-> num * 10 >= conf * frame_area,
                            bbox |-> Some(largest_contour.rect),
                            confidence |-> <<num, den>>]

\* SquirrelDetector.detect_and_check_center
SD_detect_and_check_center(frame, conf, thr) ==
    LET d == SD_detect(frame, conf)
    IN  IF ~d.detected \/ d.bbox = None
        THEN [detected |-> FALSE, bbox |-> None, confidence |-> <<0, 1>>]
        ELSE [detected |-> SD_is_in_center(frame, d.bbox, thr),
              bbox |-> d.bbox, confidence |-> d.confidence]

\* ------------------------------------------------------------ frame inputs
FrameShape == <<480, 640>>

Box(cls, conf, x, y, w, h) == [cls |-> cls, conf |-> conf, xyxy |-> <<x, y, x + w, y + h>>]

\* what the camera can deliver to the YOLO loop: target and non-target
\* classes, centred and off-centre, above and below the confidence threshold
MLBoxes ==
    { Box(0, 90, 270, 190, 100, 100),   \* squirrel, centred
      Box(1, 60, 270, 190, 100, 100),   \* skunk, centred
      Box(2, 60, 300, 200, 40, 40),     \* raccoon, centred
      Box(2, 95, 10, 10, 50, 50),       \* raccoon, off-centre
      Box(0, 10, 270, 190, 100, 100),   \* squirrel, centred, below threshold
      Box(7, 99, 270, 190, 100, 100) }  \* not a target class

MLFrames ==
    { [shape |-> FrameShape, boxes |-> bs, contours |-> << >>] :
        bs \in {<< >>} \cup {<<b>> : b \in MLBoxes}
               \cup {<<Box(7, 99, 270, 190, 100, 100), Box(1, 60, 270, 190, 100, 100)>>,
                     <<Box(0, 90, 270, 190, 100, 100), Box(2, 95, 10, 10, 50, 50)>>,
                     <<Box(1, 60, 270, 190, 100, 100), Box(0, 90, 270, 190, 100, 100)>>} }

Contour(area, x, y, w, h) == [area |-> area, rect |-> <<x, y, w, h>>]

\* what the camera can deliver to the colour/contour loop
SDContours ==
    { Contour(20000, 250, 170, 140, 140),   \* confident, centred
      Contour(20000, 10, 10, 140, 140),     \* confident, off-centre
      Contour(9000, 270, 190, 100, 100),    \* centred, confidence 0.35
      Contour(2000, 270, 190, 50, 50),      \* below 1% of the frame
      Contour(20000, 120, 215, 400, 50) }   \* aspect ratio 8

SDFrames ==
    { [shape |-> FrameShape, boxes |-> << >>, contours |-> cs] :
        cs \in {<< >>} \cup {<<c>> : c \in SDContours} }

\* ------------------------------------------------------------------ state
VARIABLES
    app,                    \* "main" (SquirrelDetectorApp) or "main_ml" (WildlifeDetectorApp)
    debug,                  \* self.debug
    pc,                     \* where run() is
    running,                \* self.running
    camera_opened,          \* camera.is_opened()
    clock,                  \* time.time(), ms
    frame,                  \* run()'s local frame: None or Some(frame)
    det,                    \* the tuple detect_and_check_center returned
    current_time,           \* run()'s local current_time
    last_trigger_time,      \* main.py: run()'s local last_trigger_time
    ml_last_trigger_time,   \* main_ml.py: run()'s local last_trigger_time, a dict
    class_pins,             \* MockMultiClassGPIO._class_pins: class name -> pin
    pin_states,             \* MockGPIOInterface._pins / MockMultiClassGPIO._pin_states
    fired,                  \* per class, the clock readings at which the actuator was invoked
    calls,                  \* the collaborators the current tick has invoked
    exc,                    \* an exception is propagating out of run() / main()'s try block
    released,               \* the resources cleanup() has released
    exit_code,              \* the process's exit status: None while it runs
    fn_in,                  \* the arguments of the function a function specification applies
    fn_out,                 \* what the function returned for them
    obj                     \* the camera or GPIO object of an object specification

vars == <<app, debug, pc, running, camera_opened, clock, frame, det, current_time,
          last_trigger_time, ml_last_trigger_time, class_pins, pin_states, fired,
          calls, exc, released, exit_code, fn_in, fn_out, obj>>

\* the empty dict
EmptyDict == [k \in {} |-> 0]

\* main_ml.main's class_pins with the default pins, and a caller of
\* WildlifeDetectorApp that configures no pin for raccoon
DefaultClassPins == ("squirrel" :> 18) @@ ("skunk" :> 19) @@ ("raccoon" :> 20)
ClassPinChoices == {DefaultClassPins, ("squirrel" :> 18) @@ ("skunk" :> 19)}

\* the clock when run() is entered: the epoch itself, or later
StartTimes == {0, 4 * ClockGrain}

\* the class the tick is about: main.py has the one class
TickClass == IF app = "main" THEN "squirrel" ELSE det.class_name[1]

\* the class's last trigger time as the loop reads it
LastTime(c) ==
    IF app = "main" THEN last_trigger_time ELSE Get(ml_last_trigger_time, c, 0)

IsHigh(pin) == Get(pin_states, pin, FALSE)

\* time.sleep(d): the clock readings it can return at
Elapse(d) ==
    LET first == ((clock + d + ClockGrain - 1) \div ClockGrain) * ClockGrain
    IN  {t \in ClockValues : first <= t /\ t <= first + MaxOverrun * ClockGrain}

\* main() up to app.run(): SquirrelDetectorApp.__init__ / WildlifeDetectorApp.__init__
\* has returned, or the camera, the GPIO or the detector raised while being
\* built (the detector is built before the pins are set up)
Init ==
    /\ app \in {"main", "main_ml"}
    /\ debug \in BOOLEAN
    /\ \E constructed \in BOOLEAN :
         /\ pc = IF constructed THEN "constructed" ELSE "not_constructed"
         /\ exc = ~constructed
    /\ running = FALSE
    /\ camera_opened = FALSE
    /\ clock \in StartTimes
    /\ frame = None
    /\ det = IF app = "main"
             THEN [detected |-> FALSE, bbox |-> None, confidence |-> <<0, 1>>]
             ELSE NoDetection
    /\ current_time = 0
    /\ last_trigger_time = 0
    /\ ml_last_trigger_time = EmptyDict
    /\ class_pins \in IF app = "main" THEN {EmptyDict} ELSE ClassPinChoices
    /\ pin_states = IF exc THEN EmptyDict
                    ELSE IF app = "main" THEN (gpio_pin :> FALSE)
                    ELSE [p \in {class_pins[c] : c \in DOMAIN class_pins} |-> FALSE]
    /\ fired = [c \in ClassNames |-> << >>]
    /\ calls = {}
    /\ released = {}
    /\ exit_code = None
    /\ fn_in = None
    /\ fn_out = None
    /\ obj = None

\* faulty variant: the cooldown boundary excluded
main_cooldown_elapsed_strict(now, last) == now - last > trigger_cooldown

\* current_time - last_trigger_time >= trigger_cooldown  (main.py)
main_cooldown_elapsed(now, last) == now - last >= trigger_cooldown

\* faulty variant: the pulse duration taken for the cooldown
ml_cooldown_elapsed_pulse(now, last) == now - last >= pulse_duration

\* current_time - last_time >= trigger_cooldown  (main_ml.py)
ml_cooldown_elapsed(now, last) == now - last >= trigger_cooldown

\* self.camera.start(), outside run()'s try: the camera opens, stays closed,
\* or start() raises (VideoCameraInterface: ValueError)
CameraStart ==
    /\ pc = "constructed"
    /\ \E outcome \in {"opened", "not_opened", "raises"} :
         /\ camera_opened' = (outcome = "opened")
         /\ exc' = (outcome = "raises")
         /\ pc' = IF outcome = "raises" THEN "raised" ELSE "started"
    /\ UNCHANGED <<calls, released, exit_code, fn_in, fn_out>>
    /\ UNCHANGED <<obj, app, debug, running, clock, frame, det, current_time,
                   last_trigger_time, ml_last_trigger_time, class_pins, pin_states, fired>>

\* faulty variant: the camera is never checked
after_open_check_missing(opened) == "opened"

\* "if not self.camera.is_opened(): ...; return": where run() goes next
after_open_check(opened) == IF opened THEN "opened" ELSE "returned"

\* if not self.camera.is_opened(): return
CheckOpened ==
    /\ pc = "started"
    /\ pc' = after_open_check(camera_opened)
    /\ UNCHANGED <<calls, exc, released, exit_code, fn_in, fn_out>>
    /\ UNCHANGED <<obj, app, debug, running, camera_opened, clock, frame, det, current_time,
                   last_trigger_time, ml_last_trigger_time, class_pins, pin_states, fired>>

\* self.running = True; last_trigger_time = 0 / {}
SetRunning ==
    /\ pc = "opened"
    /\ running' = TRUE
    /\ last_trigger_time' = 0
    /\ ml_last_trigger_time' = EmptyDict
    /\ pc' = "loop"
    /\ UNCHANGED <<calls, exc, released, exit_code, fn_in, fn_out>>
    /\ UNCHANGED <<obj, app, debug, camera_opened, clock, frame, det, current_time,
                   class_pins, pin_states, fired>>

\* faulty variant: the loop does not look at the flag
loop_test_forever(flag) == "read"

\* "while self.running:": into the body, or out to the finally block
loop_test(flag) == IF flag THEN "read" ELSE "cleanup"

\* while self.running:
LoopTest ==
    /\ pc = "loop"
    /\ pc' = loop_test(running)
    /\ UNCHANGED <<calls, exc, released, exit_code, fn_in, fn_out>>
    /\ UNCHANGED <<obj, app, debug, running, camera_opened, clock, frame, det, current_time,
                   last_trigger_time, ml_last_trigger_time, class_pins, pin_states, fired>>

\* frame = self.camera.read(); if frame is None: ...
ReadFrame ==
    /\ pc = "read"
    /\ \E f \in {None} \cup {Some(x) : x \in IF app = "main" THEN SDFrames ELSE MLFrames} :
         /\ frame' = f
         /\ pc' = IF f = None THEN "backoff" ELSE "detect"
    /\ UNCHANGED <<calls, exc, released, exit_code, fn_in, fn_out>>
    /\ UNCHANGED <<obj, app, debug, running, camera_opened, clock, det, current_time,
                   last_trigger_time, ml_last_trigger_time, class_pins, pin_states, fired>>

\* faulty variant: a failed read ends the loop
after_read_failure_break == "cleanup"

\* "continue" after a failed read: back to the loop test
after_read_failure == "loop"

\* logger.warning("Failed to read frame"); time.sleep(0.1); continue
Backoff ==
    /\ pc = "backoff"
    /\ \E t \in Elapse(read_backoff) : clock' = t
    /\ pc' = after_read_failure
    /\ UNCHANGED <<calls, exc, released, exit_code, fn_in, fn_out>>
    /\ UNCHANGED <<obj, app, debug, running, camera_opened, frame, det, current_time,
                   last_trigger_time, ml_last_trigger_time, class_pins, pin_states, fired>>

\* faulty variant: the centre test runs before the detection is looked at
center_tested_always(d) == TRUE

\* detect_and_check_center gets past "if not detected or bbox is None: return"
\* to self.is_in_center(frame, bbox).  d is what self.detect(frame) returned.
center_tested(d) == ~(~d.detected \/ d.bbox = None)

\* detected, bbox, confidence[, class_name] = self.detector.detect_and_check_center(frame)
Detect ==
    /\ pc = "detect"
    /\ det' = IF app = "main"
              THEN SD_detect_and_check_center(frame, sd_confidence_threshold, center_threshold)
              ELSE ML_detect_and_check_center(frame, ml_confidence_threshold, center_threshold)
    /\ calls' = {"detector"} \cup
                (IF center_tested(IF app = "main"
                                  THEN SD_detect(frame, sd_confidence_threshold)
                                  ELSE ML_detect(frame, ml_confidence_threshold))
                 THEN {"center"} ELSE {})
    /\ pc' = "decide"
    /\ UNCHANGED <<exc, released, exit_code, fn_in, fn_out>>
    /\ UNCHANGED <<obj, app, debug, running, camera_opened, clock, frame, current_time,
                   last_trigger_time, ml_last_trigger_time, class_pins, pin_states, fired>>

\* faulty variant: the time is recorded for every centred detection, fired or not
main_branch_records_always(detected, elapsed) ==
    IF detected THEN (IF elapsed THEN "output_high" ELSE "record") ELSE "debug"

\* main.py: "if detected:" and, inside it, "if <cooldown elapsed>:": where
\* run() goes next
main_branch(detected, elapsed) ==
    IF detected THEN (IF elapsed THEN "output_high" ELSE "debug") ELSE "debug"

\* main_ml.py: "if detected and class_name:" and, inside it, "if <cooldown elapsed>:"
ml_branch(detected, class_name, elapsed) ==
    IF detected /\ class_name # None
    THEN (IF elapsed THEN "trigger_class" ELSE "debug")
    ELSE "debug"

\* the tick gets inside "if detected [and class_name]:", where the clock is
\* read and the cooldown is compared
cooldown_consulted ==
    IF app = "main" THEN det.detected ELSE det.detected /\ det.class_name # None

\* if detected [and class_name]: current_time = time.time(); if <cooldown elapsed>:
Decide ==
    /\ pc = "decide"
    /\ IF app = "main"
       THEN /\ current_time' = IF det.detected THEN clock ELSE current_time
            /\ pc' = main_branch(det.detected,
                                 main_cooldown_elapsed(clock, last_trigger_time))
       ELSE /\ current_time' = IF det.detected /\ det.class_name # None
                               THEN clock ELSE current_time
            /\ pc' = ml_branch(det.detected, det.class_name,
                               det.class_name # None
                               /\ ml_cooldown_elapsed(clock,
                                      Get(ml_last_trigger_time, det.class_name[1], 0)))
    /\ calls' = calls \cup (IF cooldown_consulted THEN {"scheduler"} ELSE {})
    /\ UNCHANGED <<exc, released, exit_code, fn_in, fn_out>>
    /\ UNCHANGED <<obj, app, debug, running, camera_opened, clock, frame, det,
                   last_trigger_time, ml_last_trigger_time, class_pins, pin_states, fired>>

\* main.py: self.gpio.output(self.gpio_pin, True)
OutputHigh ==
    /\ pc = "output_high"
    /\ pin_states' = (gpio_pin :> TRUE) @@ pin_states
    /\ fired' = [fired EXCEPT !["squirrel"] = Append(@, clock)]
    /\ pc' = "record"
    /\ calls' = calls \cup {"actuator"}
    /\ UNCHANGED <<exc, released, exit_code, fn_in, fn_out>>
    /\ UNCHANGED <<obj, app, debug, running, camera_opened, clock, frame, det, current_time,
                   last_trigger_time, ml_last_trigger_time, class_pins>>

\* the time main.py stores in last_trigger_time
main_recorded_time == current_time

\* main.py: last_trigger_time = current_time
RecordMain ==
    /\ pc = "record"
    /\ app = "main"
    /\ last_trigger_time' = main_recorded_time
    /\ pc' = "hold"
    /\ UNCHANGED <<calls, exc, released, exit_code, fn_in, fn_out>>
    /\ UNCHANGED <<obj, app, debug, running, camera_opened, clock, frame, det, current_time,
                   ml_last_trigger_time, class_pins, pin_states, fired>>

\* main_ml.py: self.gpio.trigger_class(class_name, duration=0.5), up to the pin going high
TriggerClass ==
    /\ pc = "trigger_class"
    /\ fired' = [fired EXCEPT ![det.class_name[1]] = Append(@, clock)]
    /\ IF det.class_name[1] \notin DOMAIN class_pins
       THEN /\ pc' = "record"
            /\ UNCHANGED pin_states
       ELSE /\ pin_states' = (class_pins[det.class_name[1]] :> TRUE) @@ pin_states
            /\ pc' = "hold"
    /\ calls' = calls \cup {"actuator"}
    /\ UNCHANGED <<exc, released, exit_code, fn_in, fn_out>>
    /\ UNCHANGED <<obj, app, debug, running, camera_opened, clock, frame, det, current_time,
                   last_trigger_time, ml_last_trigger_time, class_pins>>

\* faulty variant: a stop request seen during the pulse abandons the tick
after_hold_abort(flag) == IF flag THEN "output_low" ELSE "loop"

\* after the pulse's sleep the pin is driven low, whatever self.running says
after_hold(flag) == "output_low"

\* time.sleep(0.5) / time.sleep(duration) with the pin high
Hold ==
    /\ pc = "hold"
    /\ \E t \in Elapse(pulse_duration) : clock' = t
    /\ pc' = after_hold(running)
    /\ UNCHANGED <<calls, exc, released, exit_code, fn_in, fn_out>>
    /\ UNCHANGED <<obj, app, debug, running, camera_opened, frame, det, current_time,
                   last_trigger_time, ml_last_trigger_time, class_pins, pin_states, fired>>

\* the pin the tick drives
TickPin == IF app = "main" THEN gpio_pin ELSE class_pins[det.class_name[1]]

\* faulty variant: the pin is not driven low
pins_left_high == pin_states

\* the pin levels after self.gpio.output(self.gpio_pin, False) /
\* self._pin_states[pin] = False
pins_after_low == (TickPin :> FALSE) @@ pin_states

OutputLow ==
    /\ pc = "output_low"
    /\ pin_states' = pins_after_low
    /\ pc' = IF app = "main" THEN "debug" ELSE "record"
    /\ UNCHANGED <<calls, exc, released, exit_code, fn_in, fn_out>>
    /\ UNCHANGED <<obj, app, debug, running, camera_opened, clock, frame, det, current_time,
                   last_trigger_time, ml_last_trigger_time, class_pins, fired>>

\* faulty variant: the time is taken when trigger_class returns
ml_recorded_time_after_pulse == clock

\* the time main_ml.py stores in last_trigger_time[class_name]
ml_recorded_time == current_time

\* faulty variant: one last trigger time for all classes
ml_record_shared(times, class_name, t) == [k \in ClassNames |-> t]

\* the dict after last_trigger_time[class_name] = t
ml_record(times, class_name, t) == (class_name :> t) @@ times

\* main_ml.py: last_trigger_time[class_name] = current_time
RecordML ==
    /\ pc = "record"
    /\ app = "main_ml"
    /\ ml_last_trigger_time' = ml_record(ml_last_trigger_time, det.class_name[1],
                                         ml_recorded_time)
    /\ pc' = "debug"
    /\ UNCHANGED <<calls, exc, released, exit_code, fn_in, fn_out>>
    /\ UNCHANGED <<obj, app, debug, running, camera_opened, clock, frame, det, current_time,
                   last_trigger_time, class_pins, pin_states, fired>>

\* faulty variant: stop() flips the flag
after_stop_toggle(flag) == ~flag

\* self.running after stop(): "self.running = False"
after_stop(flag) == FALSE

\* if self.debug: ... if cv2.waitKey(1) & 0xFF == ord("q"): self.stop()
Debug ==
    /\ pc = "debug"
    /\ IF debug
       THEN \E key_q \in BOOLEAN : running' = IF key_q THEN after_stop(running) ELSE running
       ELSE UNCHANGED running
    /\ pc' = "sleep"
    /\ UNCHANGED <<calls, exc, released, exit_code, fn_in, fn_out>>
    /\ UNCHANGED <<obj, app, debug, camera_opened, clock, frame, det, current_time,
                   last_trigger_time, ml_last_trigger_time, class_pins, pin_states, fired>>

\* time.sleep(0.033).  frame, the detection tuple and current_time are dead
\* from here on (assigned again before their next use): they are cleared.
FrameSleep ==
    /\ pc = "sleep"
    /\ \E t \in Elapse(frame_sleep) : clock' = t
    /\ frame' = None
    /\ det' = IF app = "main"
              THEN [detected |-> FALSE, bbox |-> None, confidence |-> <<0, 1>>]
              ELSE NoDetection
    /\ current_time' = 0
    /\ calls' = {}
    /\ pc' = "loop"
    /\ UNCHANGED <<exc, released, exit_code, fn_in, fn_out>>
    /\ UNCHANGED <<obj, app, debug, running, camera_opened,
                   last_trigger_time, ml_last_trigger_time, class_pins, pin_states, fired>>

\* faulty variant: cleanup() stops the camera only
released_camera_only == {"camera"}

\* cleanup(): self.camera.stop(); self.gpio.cleanup()
released_by_cleanup == {"camera", "gpio"}

\* finally: self.cleanup(): camera.stop(); gpio.cleanup().  An exception that
\* brought run() here goes on to main() afterwards.
Cleanup ==
    /\ pc = "cleanup"
    /\ camera_opened' = FALSE
    /\ pin_states' = EmptyDict
    /\ class_pins' = EmptyDict
    /\ released' = released_by_cleanup
    /\ pc' = IF exc THEN "raised" ELSE "done"
    /\ UNCHANGED <<calls, exc, exit_code, fn_in, fn_out>>
    /\ UNCHANGED <<obj, app, debug, running, clock, frame, det, current_time,
                   last_trigger_time, ml_last_trigger_time, fired>>

\* _signal_handler (SIGINT, SIGTERM) -> self.stop(), between any two steps
Signal ==
    /\ pc \notin {"not_constructed", "done", "returned", "raised"}
    /\ running' = after_stop(running)
    /\ UNCHANGED <<calls, exc, released, exit_code, fn_in, fn_out>>
    /\ UNCHANGED <<obj, app, debug, pc, camera_opened, clock, frame, det, current_time,
                   last_trigger_time, ml_last_trigger_time, class_pins, pin_states, fired>>

\* the calls of a tick that can raise: camera.read(), the detector, the
\* actuator call before it has changed a pin, and the debug window's cv2 calls
CanRaise ==
    \/ pc \in {"read", "detect", "output_high", "trigger_class"}
    \/ pc = "debug" /\ debug

\* an exception inside run()'s try: the finally block runs next
Raise ==
    /\ CanRaise
    /\ exc' = TRUE
    /\ pc' = "cleanup"
    /\ UNCHANGED <<calls, released, exit_code, fn_in, fn_out>>
    /\ UNCHANGED <<obj, app, debug, running, camera_opened, clock, frame, det, current_time,
                   last_trigger_time, ml_last_trigger_time, class_pins, pin_states, fired>>

\* the status main() ends the process with: sys.exit(1) in "except Exception",
\* 0 when app.run() returned
main_exit_status(raised) == IF raised THEN 1 ELSE 0

\* main() after its try block
MainExit ==
    /\ pc \in {"not_constructed", "done", "returned", "raised"}
    /\ exit_code = None
    /\ exit_code' = Some(main_exit_status(exc))
    /\ UNCHANGED <<calls, exc, released, fn_in, fn_out>>
    /\ UNCHANGED <<obj, app, debug, pc, running, camera_opened, clock, frame, det, current_time,
                   last_trigger_time, ml_last_trigger_time, class_pins, pin_states, fired>>

Next ==
    \/ CameraStart
    \/ CheckOpened
    \/ SetRunning
    \/ LoopTest
    \/ ReadFrame
    \/ Backoff
    \/ Detect
    \/ Decide
    \/ OutputHigh
    \/ RecordMain
    \/ TriggerClass
    \/ Hold
    \/ OutputLow
    \/ RecordML
    \/ Debug
    \/ FrameSleep
    \/ Cleanup
    \/ Raise
    \/ MainExit
    \/ Signal

Spec == Init /\ [][Next]_vars

\* the steps of the thread that runs main() and run(): everything but the
\* arrival of a signal and the raising of an exception
RunStep ==
    \/ CameraStart \/ CheckOpened \/ SetRunning \/ LoopTest \/ ReadFrame \/ Backoff
    \/ Detect \/ Decide \/ OutputHigh \/ RecordMain \/ TriggerClass \/ Hold
    \/ OutputLow \/ RecordML \/ Debug \/ FrameSleep \/ Cleanup \/ MainExit

\* the thread is scheduled: a call that can return does return, a sleep ends
FairSpec == Spec /\ WF_vars(RunStep)

\* ------------------------------------------- is_in_center as a function
\* The arguments is_in_center is applied to: frame sizes, boxes and thresholds
\* (percent, in (0, 1]) up to the bounds, the two 640x480 scenarios, and a
\* missing frame or box.
CenterThresholds == {1, 30, 50, 100}

SmallFrames == {[shape |-> <<fh, fw>>] : fh \in 1..MaxDim, fw \in 1..MaxDim}

SmallBoxes == {<<x, y, w, h>> : x \in 0..MaxDim, y \in 0..MaxDim,
                                w \in 0..MaxDim, h \in 0..MaxDim}

ScenarioFrame == [shape |-> FrameShape]
ScenarioA == [frame |-> Some(ScenarioFrame), bbox |-> Some(<<270, 190, 100, 100>>),
              thr |-> 50]
ScenarioB == [frame |-> Some(ScenarioFrame), bbox |-> Some(<<10, 10, 50, 50>>),
              thr |-> 30]

CenterInputs ==
    {[frame |-> Some(f), bbox |-> Some(b), thr |-> t] :
        f \in SmallFrames, b \in SmallBoxes, t \in CenterThresholds}
    \cup {[frame |-> Some(f), bbox |-> None, thr |-> t] :
            f \in SmallFrames, t \in CenterThresholds}
    \cup {[frame |-> None, bbox |-> b, thr |-> t] :
            b \in {None, Some(<<0, 0, 1, 1>>)}, t \in CenterThresholds}
    \cup {ScenarioA, ScenarioB}

\* a detector with its center_threshold, about to be asked is_in_center(frame, bbox)
InitCenter ==
    /\ fn_in \in {Some(i) : i \in CenterInputs}
    /\ fn_out = None
    /\ pc = "is_in_center"
    /\ app = "main" /\ debug = FALSE /\ running = FALSE /\ camera_opened = FALSE
    /\ clock = 0 /\ frame = None /\ current_time = 0
    /\ det = [detected |-> FALSE, bbox |-> None, confidence |-> <<0, 1>>]
    /\ last_trigger_time = 0 /\ ml_last_trigger_time = EmptyDict
    /\ class_pins = EmptyDict /\ pin_states = EmptyDict
    /\ fired = [c \in ClassNames |-> << >>]
    /\ calls = {} /\ exc = FALSE /\ released = {} /\ exit_code = None
    /\ obj = None

\* SquirrelDetector.is_in_center and MLDetector.is_in_center applied to the
\* same arguments
IsInCenterCall ==
    /\ pc = "is_in_center"
    /\ fn_out' = Some([sd |-> SD_is_in_center(fn_in[1].frame, fn_in[1].bbox, fn_in[1].thr),
                       ml |-> ML_is_in_center(fn_in[1].frame, fn_in[1].bbox, fn_in[1].thr)])
    /\ pc' = "is_in_center_returned"
    /\ UNCHANGED <<calls, exc, released, exit_code, fn_in>>
    /\ UNCHANGED <<obj, app, debug, running, camera_opened, clock, frame, det, current_time,
                   last_trigger_time, ml_last_trigger_time, class_pins, pin_states, fired>>

NextCenter == IsInCenterCall

SpecCenter == InitCenter /\ [][NextCenter]_vars

\* the variables of the detection loop, which the function and object
\* specifications leave alone
LoopVars == <<app, debug, running, camera_opened, clock, frame, det, current_time,
              last_trigger_time, ml_last_trigger_time, class_pins, pin_states, fired,
              calls, exc, released, exit_code>>

\* no application is running
NoLoop ==
    /\ app = "main" /\ debug = FALSE /\ running = FALSE /\ camera_opened = FALSE
    /\ clock = 0 /\ frame = None /\ current_time = 0
    /\ det = [detected |-> FALSE, bbox |-> None, confidence |-> <<0, 1>>]
    /\ last_trigger_time = 0 /\ ml_last_trigger_time = EmptyDict
    /\ class_pins = EmptyDict /\ pin_states = EmptyDict
    /\ fired = [c \in ClassNames |-> << >>]
    /\ calls = {} /\ exc = FALSE /\ released = {} /\ exit_code = None

\* -------------------------------------------- MLDetector.detect as a function
\* class ids (7 is no target class) and confidences of the boxes, and the
\* detector's confidence thresholds; no confidence equals a threshold
DetectClasses == {0, 1, 2, 7}
DetectConfs == {10, 60, 90}
DetectThresholds == {25, 75}

\* the i-th box of a result lies at (10 * i, 10 * i): its place in the result
\* can be read off the bounding box
RECURSIVE PlacedBoxes(_, _)
PlacedBoxes(kinds, i) ==
    IF i > Len(kinds) THEN << >>
    ELSE <<Box(kinds[i][1], kinds[i][2], 10 * i, 10 * i, 20, 20)>>
         \o PlacedBoxes(kinds, i + 1)

DetectInputs ==
    {[frame |-> Some([shape |-> FrameShape, boxes |-> PlacedBoxes(kinds, 1),
                      contours |-> << >>]),
      conf |-> c] :
        kinds \in UNION {[1..n -> DetectClasses \X DetectConfs] : n \in 0..MaxBoxes},
        c \in DetectThresholds}

InitDetect ==
    /\ fn_in \in {Some(i) : i \in DetectInputs}
    /\ fn_out = None
    /\ obj = None
    /\ pc = "detect_call"
    /\ NoLoop

\* MLDetector.detect(frame)
DetectCall ==
    /\ pc = "detect_call"
    /\ fn_out' = Some(ML_detect(fn_in[1].frame, fn_in[1].conf))
    /\ pc' = "detect_returned"
    /\ UNCHANGED <<fn_in, obj, LoopVars>>

NextDetect == DetectCall

SpecDetect == InitDetect /\ [][NextDetect]_vars

\* ------------------------------------------------------------ the cameras
\* A camera object: kind, whether its source can be opened, cap (self._cap /
\* self._camera: 0 for None, else the number of a capture handle), and every
\* capture handle created so far with whether it is open and how often it
\* was released.  ret is what the last call returned or raised.
NewHandle(cam, opened) == Append(cam.handles, [opened |-> opened, releases |-> 0])

Released(cam, h) ==
    [cam.handles EXCEPT ![h] = [opened |-> FALSE, releases |-> @.releases + 1]]

\* VideoCameraInterface.start; a new capture is at frame 0
video_start(cam) ==
    IF cam.cap # 0 THEN [cam EXCEPT !.ret = "returned"]
    ELSE [cam EXCEPT !.handles = NewHandle(cam, cam.source_ok),
                     !.cap = Len(cam.handles) + 1,
                     !.pos = 0,
                     !.ret = IF cam.source_ok THEN "returned" ELSE "ValueError"]

\* faulty variant: stop() leaves the capture as it is
video_stop_noop(cam) == [cam EXCEPT !.ret = "returned"]

\* VideoCameraInterface.stop
video_stop(cam) ==
    IF cam.cap # 0
    THEN [cam EXCEPT !.handles = Released(cam, cam.cap), !.cap = 0, !.pos = 0,
                     !.ret = "returned"]
    ELSE [cam EXCEPT !.ret = "returned"]

\* faulty variant: at the end of the file read() gives up
video_read_no_rewind(cam) ==
    IF cam.cap = 0 THEN [cam EXCEPT !.ret = "None", !.rewound = FALSE]
    ELSE IF cam.handles[cam.cap].opened /\ cam.pos < cam.frames
         THEN [cam EXCEPT !.ret = "frame", !.pos = @ + 1, !.rewound = FALSE]
         ELSE [cam EXCEPT !.ret = "None", !.rewound = FALSE]

\* VideoCameraInterface.read: a read, and after a failed one a rewind
\* (self._cap.set(cv2.CAP_PROP_POS_FRAMES, 0)) and a second read.  The file
\* holds cam.frames frames and the capture is at frame cam.pos; a capture
\* that is not opened yields nothing.
video_read(cam) ==
    IF cam.cap = 0 THEN [cam EXCEPT !.ret = "None", !.rewound = FALSE]
    ELSE LET opened == cam.handles[cam.cap].opened
         IN  IF opened /\ cam.pos < cam.frames
             THEN [cam EXCEPT !.ret = "frame", !.pos = @ + 1, !.rewound = FALSE]
             ELSE IF opened /\ 0 < cam.frames
             THEN [cam EXCEPT !.ret = "frame", !.pos = 1, !.rewound = TRUE]
             ELSE [cam EXCEPT !.ret = "None", !.pos = 0, !.rewound = TRUE]

\* VideoCameraInterface.is_opened
video_is_opened(cam) == cam.cap # 0 /\ cam.handles[cam.cap].opened

\* PiCameraInterface.start
pi_start(cam) ==
    IF cam.cap # 0 THEN [cam EXCEPT !.ret = "returned"]
    ELSE [cam EXCEPT !.handles = NewHandle(cam, TRUE),
                     !.cap = Len(cam.handles) + 1,
                     !.ret = "returned"]

\* PiCameraInterface.stop
pi_stop(cam) ==
    IF cam.cap # 0
    THEN [cam EXCEPT !.handles = Released(cam, cam.cap), !.cap = 0, !.ret = "returned"]
    ELSE [cam EXCEPT !.ret = "returned"]

\* PiCameraInterface.read: capture_array() delivers a frame or raises
pi_read(cam, captured) ==
    IF cam.cap = 0 THEN [cam EXCEPT !.ret = "None"]
    ELSE [cam EXCEPT !.ret = IF captured THEN "frame" ELSE "None"]

\* PiCameraInterface.is_opened
pi_is_opened(cam) == cam.cap # 0

\* OpenCVCameraInterface.start (main.py, create_camera_interface)
opencv_start(cam) ==
    [cam EXCEPT !.handles = NewHandle(cam, cam.source_ok),
                !.cap = Len(cam.handles) + 1,
                !.ret = "returned"]

\* OpenCVCameraInterface.stop
opencv_stop(cam) ==
    IF cam.cap # 0
    THEN [cam EXCEPT !.handles = Released(cam, cam.cap), !.ret = "returned"]
    ELSE [cam EXCEPT !.ret = "returned"]

\* OpenCVCameraInterface.read
opencv_read(cam, ret_ok) ==
    IF cam.cap # 0
    THEN [cam EXCEPT !.ret = IF cam.handles[cam.cap].opened /\ ret_ok
                              THEN "frame" ELSE "None"]
    ELSE [cam EXCEPT !.ret = "None"]

\* OpenCVCameraInterface.is_opened
opencv_is_opened(cam) == cam.cap # 0 /\ cam.handles[cam.cap].opened

\* CameraInterface.start / stop / read / is_opened on the camera's class
camera_start(cam) ==
    CASE cam.kind = "video" -> video_start(cam)
      [] cam.kind = "pi" -> pi_start(cam)
      [] cam.kind = "opencv" -> opencv_start(cam)

camera_stop(cam) ==
    CASE cam.kind = "video" -> video_stop(cam)
      [] cam.kind = "pi" -> pi_stop(cam)
      [] cam.kind = "opencv" -> opencv_stop(cam)

camera_read(cam, first_ok, second_ok) ==
    CASE cam.kind = "video" -> video_read(cam)
      [] cam.kind = "pi" -> pi_read(cam, first_ok)
      [] cam.kind = "opencv" -> opencv_read(cam, first_ok)

camera_is_opened(cam) ==
    CASE cam.kind = "video" -> video_is_opened(cam)
      [] cam.kind = "pi" -> pi_is_opened(cam)
      [] cam.kind = "opencv" -> opencv_is_opened(cam)

\* A camera after its constructor.  The harness keeps, next to the object,
\* the last call (last), the number of calls (n) and the phase: "new", or
\* what the last start()/stop() did: "started" (start returned), "failed"
\* (start raised), "stopped".
InitCamera ==
    /\ \E kind \in {"video", "pi", "opencv"}, ok \in BOOLEAN, frames \in 0..MaxVideoFrames :
          /\ kind = "pi" => ok
          /\ kind # "video" => frames = 0
          /\ obj = [kind |-> kind, source_ok |-> ok, cap |-> 0, handles |-> << >>,
                    frames |-> frames, pos |-> 0, rewound |-> FALSE,
                    ret |-> "returned", last |-> "init", n |-> 0, phase |-> "new"]
    /\ fn_in = None
    /\ fn_out = None
    /\ pc = "camera"
    /\ NoLoop

CamStart ==
    /\ pc = "camera" /\ obj.n < MaxCameraCalls
    /\ obj' = LET c == camera_start(obj)
              IN  [c EXCEPT !.last = "start", !.n = @ + 1,
                            !.phase = IF c.ret = "returned" THEN "started" ELSE "failed"]
    /\ UNCHANGED <<pc, fn_in, fn_out, LoopVars>>

CamStop ==
    /\ pc = "camera" /\ obj.n < MaxCameraCalls
    /\ obj' = [camera_stop(obj) EXCEPT !.last = "stop", !.n = @ + 1, !.phase = "stopped"]
    /\ UNCHANGED <<pc, fn_in, fn_out, LoopVars>>

CamRead ==
    /\ pc = "camera" /\ obj.n < MaxCameraCalls
    /\ \E first_ok \in BOOLEAN, second_ok \in BOOLEAN :
          obj' = [camera_read(obj, first_ok, second_ok) EXCEPT !.last = "read", !.n = @ + 1]
    /\ UNCHANGED <<pc, fn_in, fn_out, LoopVars>>

CamIsOpened ==
    /\ pc = "camera" /\ obj.n < MaxCameraCalls
    /\ obj' = [obj EXCEPT !.ret = IF camera_is_opened(obj) THEN "True" ELSE "False",
                          !.last = "is_opened", !.n = @ + 1]
    /\ UNCHANGED <<pc, fn_in, fn_out, LoopVars>>

NextCamera == CamStart \/ CamStop \/ CamRead \/ CamIsOpened

SpecCamera == InitCamera /\ [][NextCamera]_vars

\* ---------------------------------------- the centre region as a function
\* frame sizes and thresholds (percent, in (0, 1]) the region is computed for
RegionInputs ==
    {[shape |-> <<fh, fw>>, thr |-> t] :
        fh \in 1..MaxRegionDim, fw \in 1..MaxRegionDim, t \in 1..100}
    \cup {[shape |-> FrameShape, thr |-> t] : t \in 1..100}

InitRegion ==
    /\ fn_in \in {Some(i) : i \in RegionInputs}
    /\ fn_out = None
    /\ obj = None
    /\ pc = "center_region"
    /\ NoLoop

\* the region as is_in_center computes it and as _draw_debug draws it
CenterRegionCall ==
    /\ pc = "center_region"
    /\ fn_out' = Some([gate |-> center_region(fn_in[1].shape[2], fn_in[1].shape[1],
                                               fn_in[1].thr),
                       drawn |-> draw_region(fn_in[1].shape[2], fn_in[1].shape[1],
                                             fn_in[1].thr)])
    /\ pc' = "center_region_returned"
    /\ UNCHANGED <<fn_in, obj, LoopVars>>

NextRegion == CenterRegionCall

SpecRegion == InitRegion /\ [][NextRegion]_vars

\* ------------------------------------------- MockGPIOInterface as an object
\* A Python dict is the set of its <<key, value>> items, one per key.
DictKeys(d) == {e[1] : e \in d}

\* d.get(k, default)
DictGet(d, k, default) ==
    IF k \in DictKeys(d) THEN (CHOOSE e \in d : e[1] = k)[2] ELSE default

\* d[k] = v
DictPut(d, k, v) == {e \in d : e[1] # k} \cup {<<k, v>>}

\* del d[k]
DictDel(d, k) == {e \in d : e[1] # k}

\* The object: _pins (pin -> level), _callbacks (pin -> list of callbacks),
\* the callback invocations made by the last call, and its return value.
\* faulty variant: setup() drives the pin low
mock_setup_reset(gpio, pin) ==
    [gpio EXCEPT !.pins = DictPut(gpio.pins, pin, FALSE),
                 !.invoked = << >>, !.ret = None]

\* MockGPIOInterface.setup
mock_setup(gpio, pin) ==
    [gpio EXCEPT !.pins = IF pin \notin DictKeys(gpio.pins)
                          THEN DictPut(gpio.pins, pin, FALSE)
                          ELSE gpio.pins,
                 !.invoked = << >>, !.ret = None]

\* faulty variant: the callbacks are invoked on every output
mock_output_always(gpio, pin, value) ==
    LET g == IF pin \notin DictKeys(gpio.pins) THEN mock_setup(gpio, pin) ELSE gpio
    IN  [g EXCEPT !.pins = DictPut(g.pins, pin, value),
                  !.invoked = IF pin \in DictKeys(g.callbacks)
                              THEN LET cbs == DictGet(g.callbacks, pin, << >>)
                                   IN  [i \in 1..Len(cbs) |-> <<cbs[i], pin, value>>]
                              ELSE << >>,
                  !.ret = None]

\* MockGPIOInterface.output
mock_output(gpio, pin, value) ==
    LET g == IF pin \notin DictKeys(gpio.pins) THEN mock_setup(gpio, pin) ELSE gpio
        old_value == DictGet(g.pins, pin, FALSE)
    IN  [g EXCEPT !.pins = DictPut(g.pins, pin, value),
                  !.invoked = IF old_value # value /\ pin \in DictKeys(g.callbacks)
                              THEN LET cbs == DictGet(g.callbacks, pin, << >>)
                                   IN  [i \in 1..Len(cbs) |-> <<cbs[i], pin, value>>]
                              ELSE << >>,
                  !.ret = None]

\* faulty variant: cleanup(pin) clears every pin
mock_cleanup_all(gpio, pin) ==
    [gpio EXCEPT !.pins = {}, !.callbacks = {}, !.invoked = << >>, !.ret = None]

\* MockGPIOInterface.cleanup; pin is None or Some(number)
mock_cleanup(gpio, pin) ==
    IF pin = None
    THEN [gpio EXCEPT !.pins = {}, !.callbacks = {}, !.invoked = << >>, !.ret = None]
    ELSE IF pin[1] \in DictKeys(gpio.pins)
    THEN [gpio EXCEPT !.pins = DictDel(gpio.pins, pin[1]),
                      !.callbacks = IF pin[1] \in DictKeys(gpio.callbacks)
                                    THEN DictDel(gpio.callbacks, pin[1])
                                    ELSE gpio.callbacks,
                      !.invoked = << >>, !.ret = None]
    ELSE [gpio EXCEPT !.invoked = << >>, !.ret = None]

\* MockGPIOInterface.get_state
mock_get_state(gpio, pin) ==
    [gpio EXCEPT !.invoked = << >>, !.ret = Some(DictGet(gpio.pins, pin, FALSE))]

\* MockGPIOInterface.add_callback
mock_add_callback(gpio, pin, callback) ==
    LET cbs == IF pin \notin DictKeys(gpio.callbacks)
               THEN DictPut(gpio.callbacks, pin, << >>)
               ELSE gpio.callbacks
    IN  [gpio EXCEPT !.callbacks = DictPut(cbs, pin,
                                           Append(DictGet(cbs, pin, << >>), callback)),
                     !.invoked = << >>, !.ret = None]

\* the pins and the callbacks the object is called with
GpioPins == {gpio_pin, gpio_pin + 1}
GpioCallbacks == {"cb1", "cb2"}

\* MockGPIOInterface(); the fields last, args, n, last_out, had and out_before
\* record the calls made: last_out[p] is the value of the most recent output
\* on p that no later cleanup of p, or of all pins, followed; had and
\* out_before are the known pins and last_out as they were before the last
\* call.
InitGpio ==
    /\ obj = [pins |-> {}, callbacks |-> {}, invoked |-> << >>, ret |-> None,
              last |-> "init", args |-> << >>, n |-> 0,
              last_out |-> [p \in GpioPins |-> None],
              had |-> {}, out_before |-> [p \in GpioPins |-> None]]
    /\ fn_in = None
    /\ fn_out = None
    /\ pc = "gpio"
    /\ NoLoop

GpioSetup ==
    /\ pc = "gpio" /\ obj.n < MaxGpioCalls
    /\ \E pin \in GpioPins :
          obj' = [mock_setup(obj, pin) EXCEPT !.last = "setup", !.args = <<pin>>,
                                              !.n = @ + 1, !.had = DictKeys(obj.pins),
                      !.out_before = obj.last_out]
    /\ UNCHANGED <<pc, fn_in, fn_out, LoopVars>>

GpioOutput ==
    /\ pc = "gpio" /\ obj.n < MaxGpioCalls
    /\ \E pin \in GpioPins, value \in BOOLEAN :
          obj' = [mock_output(obj, pin, value)
                      EXCEPT !.last = "output", !.args = <<pin, value>>, !.n = @ + 1, !.had = DictKeys(obj.pins),
                      !.out_before = obj.last_out,
                             !.last_out[pin] = Some(value)]
    /\ UNCHANGED <<pc, fn_in, fn_out, LoopVars>>

GpioCleanup ==
    /\ pc = "gpio" /\ obj.n < MaxGpioCalls
    /\ \E pin \in {None} \cup {Some(p) : p \in GpioPins} :
          obj' = [mock_cleanup(obj, pin)
                      EXCEPT !.last = "cleanup", !.args = <<pin>>, !.n = @ + 1, !.had = DictKeys(obj.pins),
                      !.out_before = obj.last_out,
                             !.last_out = [p \in GpioPins |->
                                              IF pin = None \/ pin = Some(p)
                                              THEN None ELSE @[p]]]
    /\ UNCHANGED <<pc, fn_in, fn_out, LoopVars>>

GpioGetState ==
    /\ pc = "gpio" /\ obj.n < MaxGpioCalls
    /\ \E pin \in GpioPins :
          obj' = [mock_get_state(obj, pin) EXCEPT !.last = "get_state",
                                                  !.args = <<pin>>, !.n = @ + 1, !.had = DictKeys(obj.pins),
                      !.out_before = obj.last_out]
    /\ UNCHANGED <<pc, fn_in, fn_out, LoopVars>>

GpioAddCallback ==
    /\ pc = "gpio" /\ obj.n < MaxGpioCalls
    /\ \E pin \in GpioPins, callback \in GpioCallbacks :
          obj' = [mock_add_callback(obj, pin, callback)
                      EXCEPT !.last = "add_callback", !.args = <<pin, callback>>,
                             !.n = @ + 1, !.had = DictKeys(obj.pins),
                      !.out_before = obj.last_out]
    /\ UNCHANGED <<pc, fn_in, fn_out, LoopVars>>

NextGpio == GpioSetup \/ GpioOutput \/ GpioCleanup \/ GpioGetState \/ GpioAddCallback

SpecGpio == InitGpio /\ [][NextGpio]_vars

\* ------------------------- the class-to-pin mapping of app and GPIO object
\* Dictionaries are objects: heap[r] is the dictionary behind reference r.
\* faulty variant: the "copy" is the same object
dict_copy_alias(heap, ref) == [heap |-> heap, ref |-> ref]

\* d.copy(): a new object with the same items
dict_copy(heap, ref) == [heap |-> Append(heap, heap[ref]), ref |-> Len(heap) + 1]

\* the items of a class-to-pin function
Items(f) == {<<c, f[c]>> : c \in DOMAIN f}

\* MockMultiClassGPIO.setup_classes(class_pins), class_pins a reference
multi_setup_classes(m, pins_arg) ==
    LET cp == dict_copy(m.heap, pins_arg)
        new_pins == {e[2] : e \in m.heap[pins_arg]} \ DictKeys(m.pin_states)
    IN  [m EXCEPT !.heap = cp.heap,
                  !.gpio_class_pins = cp.ref,
                  !.pin_states = @ \cup {<<pin, FALSE>> : pin \in new_pins},
                  !.events = << >>, !.ret = None]

\* WildlifeDetectorApp.__init__ with a fresh MockMultiClassGPIO: the
\* caller's dictionary is heap[1], the GPIO object's initial one heap[2]
ml_app_init(pins_arg) ==
    LET cp == dict_copy(<<Items(pins_arg), {}>>, 1)
    IN  multi_setup_classes(
            [heap |-> cp.heap, caller |-> 1, app_class_pins |-> cp.ref,
             gpio_class_pins |-> 2, pin_states |-> {}, callbacks |-> {},
             events |-> << >>, ret |-> None],
            cp.ref)

\* callback(class_name, pin, state) for every callback of the class
class_callbacks(m, class_name, pin, state) ==
    IF class_name \in DictKeys(m.callbacks)
    THEN LET cbs == DictGet(m.callbacks, class_name, << >>)
         IN  [i \in 1..Len(cbs) |-> <<"callback", cbs[i], class_name, pin, state>>]
    ELSE << >>

\* faulty variant: the pin is driven low before the callbacks hear of the
\* high level
multi_trigger_class_hasty(m, class_name) ==
    IF class_name \notin DictKeys(m.heap[m.gpio_class_pins])
    THEN [m EXCEPT !.events = << >>, !.ret = None]
    ELSE LET pin == DictGet(m.heap[m.gpio_class_pins], class_name, 0)
         IN  [m EXCEPT !.pin_states = DictPut(m.pin_states, pin, FALSE),
                       !.events = <<<<"pin", pin, TRUE>>, <<"sleep">>,
                                    <<"pin", pin, FALSE>>>>
                                  \o class_callbacks(m, class_name, pin, TRUE)
                                  \o class_callbacks(m, class_name, pin, FALSE),
                       !.ret = None]

\* MockMultiClassGPIO.trigger_class; events lists the pin writes, callback
\* invocations and the sleep in the order they happen
multi_trigger_class(m, class_name) ==
    IF class_name \notin DictKeys(m.heap[m.gpio_class_pins])
    THEN [m EXCEPT !.events = << >>, !.ret = None]
    ELSE LET pin == DictGet(m.heap[m.gpio_class_pins], class_name, 0)
         IN  [m EXCEPT !.pin_states = DictPut(m.pin_states, pin, FALSE),
                       !.events = <<<<"pin", pin, TRUE>>>>
                                  \o class_callbacks(m, class_name, pin, TRUE)
                                  \o <<<<"sleep">>, <<"pin", pin, FALSE>>>>
                                  \o class_callbacks(m, class_name, pin, FALSE),
                       !.ret = None]

\* MockMultiClassGPIO.cleanup: the three dictionaries are cleared in place
multi_cleanup(m) ==
    [m EXCEPT !.heap[m.gpio_class_pins] = {},
              !.pin_states = {}, !.callbacks = {},
              !.events = << >>, !.ret = None]

\* MockMultiClassGPIO.get_pin_state
multi_get_pin_state(m, class_name) ==
    [m EXCEPT !.events = << >>,
              !.ret = IF class_name \notin DictKeys(m.heap[m.gpio_class_pins])
                      THEN Some(FALSE)
                      ELSE Some(DictGet(m.pin_states,
                                        DictGet(m.heap[m.gpio_class_pins], class_name, 0),
                                        FALSE))]

\* MockMultiClassGPIO.add_callback
multi_add_callback(m, class_name, callback) ==
    LET cbs == IF class_name \notin DictKeys(m.callbacks)
               THEN DictPut(m.callbacks, class_name, << >>)
               ELSE m.callbacks
    IN  [m EXCEPT !.callbacks = DictPut(cbs, class_name,
                                        Append(DictGet(cbs, class_name, << >>), callback)),
                  !.events = << >>, !.ret = None]

\* the class names used in calls and the pins the caller writes
MultiClasses == DOMAIN DefaultClassPins
MultiPins == {DefaultClassPins[c] : c \in MultiClasses}

\* The application is constructed from the caller's dictionary; at_setup is
\* the mapping handed over, phase tells whether cleanup() has run, mutated
\* whether the caller has changed its dictionary since.
InitMulti ==
    /\ \E cp \in ClassPinChoices :
          obj = [kind |-> "multi", m |-> ml_app_init(cp), at_setup |-> Items(cp),
                 phase |-> "setup", mutated |-> FALSE,
                 last |-> "init", args |-> << >>, n |-> 0]
    /\ fn_in = None
    /\ fn_out = None
    /\ pc = "multi"
    /\ NoLoop

\* the caller changes the dictionary it passed in: class_pins[c] = p or
\* del class_pins[c]
MutateCaller ==
    /\ pc = "multi" /\ obj.n < MaxMultiCalls
    /\ \E c \in MultiClasses, p \in {None} \cup {Some(q) : q \in MultiPins} :
          LET d == obj.m.heap[obj.m.caller]
              d2 == IF p = None THEN DictDel(d, c) ELSE DictPut(d, c, p[1])
          IN  /\ d2 # d
              /\ obj' = [obj EXCEPT !.m.heap[obj.m.caller] = d2,
                                    !.mutated = TRUE,
                                    !.last = "mutate", !.args = <<c, p>>, !.n = @ + 1]
    /\ UNCHANGED <<pc, fn_in, fn_out, LoopVars>>

MultiTriggerClass ==
    /\ pc = "multi" /\ obj.n < MaxMultiCalls
    /\ \E c \in MultiClasses :
          obj' = [obj EXCEPT !.m = multi_trigger_class(obj.m, c),
                             !.last = "trigger_class", !.args = <<c>>, !.n = @ + 1]
    /\ UNCHANGED <<pc, fn_in, fn_out, LoopVars>>

MultiGetPinState ==
    /\ pc = "multi" /\ obj.n < MaxMultiCalls
    /\ \E c \in MultiClasses :
          obj' = [obj EXCEPT !.m = multi_get_pin_state(obj.m, c),
                             !.last = "get_pin_state", !.args = <<c>>, !.n = @ + 1]
    /\ UNCHANGED <<pc, fn_in, fn_out, LoopVars>>

MultiAddCallback ==
    /\ pc = "multi" /\ obj.n < MaxMultiCalls
    /\ \E c \in MultiClasses, callback \in GpioCallbacks :
          obj' = [obj EXCEPT !.m = multi_add_callback(obj.m, c, callback),
                             !.last = "add_callback", !.args = <<c, callback>>,
                             !.n = @ + 1]
    /\ UNCHANGED <<pc, fn_in, fn_out, LoopVars>>

MultiCleanup ==
    /\ pc = "multi" /\ obj.n < MaxMultiCalls
    /\ obj' = [obj EXCEPT !.m = multi_cleanup(obj.m), !.phase = "cleaned",
                          !.last = "cleanup", !.args = << >>, !.n = @ + 1]
    /\ UNCHANGED <<pc, fn_in, fn_out, LoopVars>>

NextMulti ==
    \/ MutateCaller
    \/ MultiTriggerClass
    \/ MultiGetPinState
    \/ MultiAddCallback
    \/ MultiCleanup

SpecMulti == InitMulti /\ [][NextMulti]_vars

\* ------------------------------------ SquirrelDetector.detect as a function
\* a small frame, and contours of areas around 1%, 10% and 50% of it with
\* bounding boxes of aspect ratios around 0.5, 0.8, 1.5 and 2.5
SmallShape == <<10, 20>>
SDAreas == {0, 1, 2, 10, 19, 20, 50, 100, 101}
SDRects == {<<1, 0>>, <<2, 5>>, <<1, 2>>, <<3, 4>>, <<4, 5>>, <<1, 1>>, <<3, 2>>,
            <<2, 1>>, <<5, 2>>, <<3, 1>>}
SDThresholds == {0, 10, 50, 100}

SDetectFrames ==
    {None, Some([shape |-> <<0, 0>>, boxes |-> << >>, contours |-> << >>]),
     Some([shape |-> SmallShape, boxes |-> << >>, contours |-> << >>])}
    \cup {Some([shape |-> SmallShape, boxes |-> << >>,
                contours |-> <<Contour(a, 0, 0, r[1], r[2])>>]) :
              a \in SDAreas, r \in SDRects}
    \cup {Some([shape |-> SmallShape, boxes |-> << >>,
                contours |-> <<Contour(2, 0, 0, 1, 1), Contour(a, 0, 0, 3, 2)>>]) :
              a \in SDAreas}

SDetectInputs == {[frame |-> f, conf |-> c] : f \in SDetectFrames, c \in SDThresholds}

InitSDetect ==
    /\ fn_in \in {Some(i) : i \in SDetectInputs}
    /\ fn_out = None
    /\ obj = None
    /\ pc = "sd_detect_call"
    /\ NoLoop

\* detected, bbox, confidence = detector.detect(frame)
SDetectCall ==
    /\ pc = "sd_detect_call"
    /\ fn_out' = Some(SD_detect(fn_in[1].frame, fn_in[1].conf))
    /\ pc' = "sd_detect_returned"
    /\ UNCHANGED <<fn_in, obj, LoopVars>>

NextSDetect == SDetectCall

SpecSDetect == InitSDetect /\ [][NextSDetect]_vars

\* ------------------------------------------------ GPIO backend selection
\* /proc/cpuinfo: missing, unreadable, or the set of the words it contains
CpuinfoWords == {"Raspberry Pi", "BCM", "Intel", "ARMv7"}
CpuinfoFiles ==
    {[status |-> "FileNotFoundError", words |-> {}],
     [status |-> "PermissionError", words |-> {}]}
    \cup {[status |-> "ok", words |-> w] : w \in SUBSET CpuinfoWords}

\* utils.is_raspberry_pi
is_raspberry_pi(cpuinfo) ==
    IF cpuinfo.status # "ok" THEN FALSE
    ELSE "Raspberry Pi" \in cpuinfo.words \/ "BCM" \in cpuinfo.words

\* PiGPIOInterface.__init__: raises ImportError without gpiozero
PiGPIOInterface_init(gpiozero_available) ==
    IF ~gpiozero_available
    THEN [ret |-> "ImportError", value |-> None]
    ELSE [ret |-> "returned", value |-> Some("PiGPIOInterface")]

\* PiMultiClassGPIO.__init__: raises ImportError without gpiozero
PiMultiClassGPIO_init(gpiozero_available) ==
    IF ~gpiozero_available
    THEN [ret |-> "ImportError", value |-> None]
    ELSE [ret |-> "returned", value |-> Some("PiMultiClassGPIO")]

\* faulty variant: no except clause around the Pi backend's constructor
create_gpio_interface_no_except(env) ==
    IF is_raspberry_pi(env.cpuinfo)
    THEN PiGPIOInterface_init(env.gpio_available)
    ELSE [ret |-> "returned", value |-> Some("MockGPIOInterface")]

\* main.create_gpio_interface
create_gpio_interface(env) ==
    IF is_raspberry_pi(env.cpuinfo)
    THEN LET pi == PiGPIOInterface_init(env.gpio_available)
         IN  IF pi.ret = "ImportError"
             THEN [ret |-> "returned", value |-> Some("MockGPIOInterface")]
             ELSE pi
    ELSE [ret |-> "returned", value |-> Some("MockGPIOInterface")]

\* main_ml.create_multiclass_gpio
create_multiclass_gpio(env) ==
    IF is_raspberry_pi(env.cpuinfo)
    THEN LET pi == PiMultiClassGPIO_init(env.multi_available)
         IN  IF pi.ret = "ImportError"
             THEN [ret |-> "returned", value |-> Some("MockMultiClassGPIO")]
             ELSE pi
    ELSE [ret |-> "returned", value |-> Some("MockMultiClassGPIO")]

\* the platform: cpuinfo and the GPIOZERO_AVAILABLE flag of gpio.py and of
\* gpio_multiclass.py
BackendInputs ==
    {[fn |-> f, cpuinfo |-> c, gpio_available |-> g, multi_available |-> m] :
        f \in {"create_gpio_interface", "create_multiclass_gpio"},
        c \in CpuinfoFiles, g \in BOOLEAN, m \in BOOLEAN}

InitBackend ==
    /\ fn_in \in {Some(i) : i \in BackendInputs}
    /\ fn_out = None
    /\ obj = None
    /\ pc = "create_gpio"
    /\ NoLoop

CreateGpioInterface ==
    /\ pc = "create_gpio" /\ fn_in[1].fn = "create_gpio_interface"
    /\ fn_out' = Some(create_gpio_interface(fn_in[1]))
    /\ pc' = "create_gpio_done"
    /\ UNCHANGED <<fn_in, obj, LoopVars>>

CreateMulticlassGpio ==
    /\ pc = "create_gpio" /\ fn_in[1].fn = "create_multiclass_gpio"
    /\ fn_out' = Some(create_multiclass_gpio(fn_in[1]))
    /\ pc' = "create_gpio_done"
    /\ UNCHANGED <<fn_in, obj, LoopVars>>

NextBackend == CreateGpioInterface \/ CreateMulticlassGpio

SpecBackend == InitBackend /\ [][NextBackend]_vars

\* ------------------------------------------------------------- properties
Last(seq) == seq[Len(seq)]

\* the tick's detection is a centred qualifying one: the loop goes on to the
\* cooldown decision
Qualifies == det.detected /\ (app = "main_ml" => det.class_name # None)

\* the step that takes the cooldown decision of a centred qualifying detection
DecisionStep == pc = "decide" /\ pc' # "decide" /\ Qualifies

FirePcs == {"output_high", "trigger_class"}

HighPins == {p \in DOMAIN pin_states : pin_states[p]}

\* some pin is driven high by the step
DrivesHigh == \E p \in DOMAIN pin_states' : pin_states'[p] /\ ~IsHigh(p)

\* C1: a class whose most recent fire was at t1 fires on its next centred
\* qualifying detection at t2 >= t1 iff t2 - t1 >= cooldown; when it is
\* suppressed the tick goes on to its end and no pin is driven; a pin is
\* driven high only by a tick whose decision found the cooldown elapsed.
C1_CooldownRule ==
    [][ /\ (DecisionStep /\ fired[TickClass] # << >> /\ clock >= Last(fired[TickClass]))
           => /\ (pc' \in FirePcs) <=> (clock - Last(fired[TickClass]) >= trigger_cooldown)
              /\ (pc' \notin FirePcs) => (pc' = "debug" /\ pin_states' = pin_states)
        /\ DrivesHigh
           => /\ pc \in FirePcs
              /\ fired[TickClass] # << >>
                 => clock - Last(fired[TickClass]) >= trigger_cooldown
      ]_vars

\* C1 witness: a class fired, fired again exactly one cooldown later, and
\* has now been suppressed less than a cooldown after that
C1_Witness ==
    /\ pc = "debug" /\ Qualifies
    /\ Len(fired[TickClass]) >= 2
    /\ fired[TickClass][Len(fired[TickClass])] - fired[TickClass][Len(fired[TickClass]) - 1]
         = trigger_cooldown
    /\ current_time > Last(fired[TickClass])
    /\ current_time - Last(fired[TickClass]) < trigger_cooldown

\* C2: any two actuations of one class are at least a cooldown apart.
C2_OnePerWindow ==
    \A c \in ClassNames :
        \A i, j \in 1..Len(fired[c]) :
            i < j => fired[c][j] - fired[c][i] >= trigger_cooldown

\* C2 witness: a class has been actuated three times, another class in between
C2_Witness ==
    \E c, d \in ClassNames :
        /\ c # d
        /\ Len(fired[c]) >= 3
        /\ fired[d] # << >>
        /\ fired[c][1] < fired[d][1] /\ fired[d][1] < fired[c][2]

\* C3 as claimed: a class that has never fired fires on its first centred
\* qualifying detection, whatever the clock reads, and the time is recorded.
C3_FirstDetectionFires ==
    [][ /\ (DecisionStep /\ fired[TickClass] = << >>) => pc' \in FirePcs
        /\ (pc = "record" /\ pc' # "record") => LastTime(TickClass)' = current_time
      ]_vars

\* C4: in the multi-class loop a class's last-fire record and actuations
\* change only in a tick of that class, and its decision is taken from the
\* clock and its own record alone.
C4_ClassIndependence ==
    [][ app = "main_ml" =>
          \A a \in ClassNames :
             /\ (\/ (a \in DOMAIN ml_last_trigger_time') # (a \in DOMAIN ml_last_trigger_time)
                 \/ Get(ml_last_trigger_time', a, 0) # Get(ml_last_trigger_time, a, 0))
                => (pc = "record" /\ det.class_name = Some(a))
             /\ fired'[a] # fired[a]
                => (pc = "trigger_class" /\ det.class_name = Some(a))
             /\ (DecisionStep /\ det.class_name = Some(a))
                => ((pc' \in FirePcs)
                      <=> clock - Get(ml_last_trigger_time, a, 0) >= trigger_cooldown)
      ]_vars

\* C4 witness: a class is being pulsed less than a cooldown after another
\* class was
C4_Witness ==
    /\ app = "main_ml" /\ pc = "hold"
    /\ \E b \in ClassNames \ {TickClass} :
          /\ b \in DOMAIN ml_last_trigger_time
          /\ clock > ml_last_trigger_time[b]
          /\ clock - ml_last_trigger_time[b] < trigger_cooldown

\* the step changes a last-fire time, a pin level or the actuation history
\* (cleanup, which releases the pins, aside)
Mutates ==
    \/ last_trigger_time' # last_trigger_time
    \/ ml_last_trigger_time' # ml_last_trigger_time
    \/ fired' # fired
    \/ (pin_states' # pin_states /\ pc # "cleanup")

\* the tick ended in a decision suppressed by the cooldown
SuppressedTick ==
    /\ pc \in {"debug", "sleep"}
    /\ Qualifies
    /\ (fired[TickClass] = << >> \/ Last(fired[TickClass]) # current_time)

\* C5: only a fire mutates: every change of a last-fire time, a pin or the
\* actuation history is made by a tick whose decision was to fire; a
\* suppressed decision goes straight to the end of the tick with the class's
\* last-fire time still the time of its last actual fire.
C5_SuppressedMutatesNothing ==
    [][ /\ Mutates
           => \/ pc \in FirePcs
              \/ /\ pc \in {"record", "hold", "output_low"}
                 /\ fired[TickClass] # << >>
                 /\ Last(fired[TickClass]) = current_time
        /\ (DecisionStep /\ pc' \notin FirePcs) => pc' = "debug"
        /\ (SuppressedTick /\ fired[TickClass] # << >>)'
           => (LastTime(TickClass) = Last(fired[TickClass]))'
      ]_vars

\* C5 witness: a class is suppressed again, two clock samples or more after
\* its last fire
C5_Witness ==
    /\ SuppressedTick /\ pc = "sleep"
    /\ fired[TickClass] # << >>
    /\ current_time - Last(fired[TickClass]) >= 2 * ClockGrain
    /\ LastTime(TickClass) = Last(fired[TickClass])

\* C6 as claimed (scenario C): squirrel at 0.0 fires, at 1.0 is suppressed, at
\* 2.0 fires; skunk at 0.5 fires.
C6_ScenarioC ==
    [][ DecisionStep =>
          /\ (TickClass = "squirrel" /\ clock = 0 /\ fired["squirrel"] = << >>)
             => pc' \in FirePcs
          /\ (TickClass = "squirrel" /\ clock = 1000 /\ fired["squirrel"] = <<0>>)
             => pc' \notin FirePcs
          /\ (TickClass = "squirrel" /\ clock = 2000 /\ fired["squirrel"] = <<0>>)
             => pc' \in FirePcs
          /\ (TickClass = "skunk" /\ clock = 500 /\ fired["skunk"] = << >>)
             => pc' \in FirePcs
      ]_vars

\* the tick's pin has been pulsed by the time the time is recorded
PulsedBeforeRecord == app = "main_ml" /\ TickClass \in DOMAIN class_pins

\* C7: the recorded last-fire time is the clock reading at which the
\* actuator was invoked, a pulse duration or more before the pulse ends, and
\* a detection one cooldown or more after that reading fires.
C7_RecordedAtPulseStart ==
    [][ /\ (pc = "record" /\ pc' # "record")
           => /\ LastTime(TickClass)' = Last(fired[TickClass])
              /\ PulsedBeforeRecord => LastTime(TickClass)' + pulse_duration <= clock
        /\ (pc = "output_low" /\ pc' # "output_low" /\ app = "main")
           => last_trigger_time + pulse_duration <= clock
        /\ (DecisionStep /\ fired[TickClass] # << >>
              /\ clock - Last(fired[TickClass]) >= trigger_cooldown)
           => pc' \in FirePcs
      ]_vars

\* C7 witness: the multi-class loop holds a pin high in a pulse that began
\* exactly one cooldown after the class's previous pulse began
C7_Witness ==
    /\ app = "main_ml" /\ pc = "hold"
    /\ Len(fired[TickClass]) >= 2
    /\ HighPins = {class_pins[TickClass]}
    /\ Last(fired[TickClass]) - ml_last_trigger_time[TickClass] = trigger_cooldown

\* C8: at most one pin is high at a time, and only between the actuator call
\* and the end of the pulse of the same tick: no pin is high at camera.read().
C8_PulsesInsideTick ==
    /\ Cardinality(HighPins) <= 1
    /\ HighPins # {}
       => (pc \in {"hold", "output_low"} \/ (app = "main" /\ pc = "record"))

\* C8 witness: the loop is about to read a frame after pulses of two classes
C8_Witness ==
    /\ pc = "read"
    /\ \E c, d \in ClassNames : c # d /\ fired[c] # << >> /\ fired[d] # << >>

\* the centre region of a 640x480 frame at centre threshold 0.3
InCentreRegion(cx, cy) == 224 <= cx /\ cx <= 416 /\ 168 <= cy /\ cy <= 312

\* the frame of the tick holds a detection of the tick's class that meets the
\* confidence threshold and whose centre lies in the centre region
TickFrameQualifies ==
    /\ frame # None
    /\ det.detected
    /\ IF app = "main"
       THEN /\ det.confidence[1] * 100 >= sd_confidence_threshold * det.confidence[2]
            /\ \E i \in 1..Len(frame[1].contours) :
                 LET c == frame[1].contours[i]
                 IN  /\ Some(c.rect) = det.bbox
                     /\ InCentreRegion(c.rect[1] + c.rect[3] \div 2,
                                       c.rect[2] + c.rect[4] \div 2)
                     /\ 24 * c.area >= FrameShape[1] * FrameShape[2]
       ELSE \E i \in 1..Len(frame[1].boxes) :
               LET b == frame[1].boxes[i]
               IN  /\ b.cls \in {0, 1, 2}
                   /\ b.conf = det.confidence
                   /\ Some(CLASS_NAMES[b.cls]) = det.class_name
                   /\ b.conf >= ml_confidence_threshold
                   /\ InCentreRegion(b.xyxy[1] + (b.xyxy[3] - b.xyxy[1]) \div 2,
                                     b.xyxy[2] + (b.xyxy[4] - b.xyxy[2]) \div 2)

FirePath == {"output_high", "trigger_class", "record", "hold", "output_low"}

\* C9: the actuator is invoked, a pin is high or a last-fire time changes
\* only in a tick whose frame was read and holds a centred detection meeting
\* the confidence threshold, and the actuator is invoked only with the
\* class's cooldown elapsed.
C9_OnlyQualifyingTicksActuate ==
    [][ /\ (pc \in FirePath \/ HighPins # {})' => TickFrameQualifies'
        /\ Mutates => TickFrameQualifies
        /\ (pc \in FirePcs)' => (current_time - LastTime(TickClass) >= trigger_cooldown)'
      ]_vars

\* C9 witness: a pin is high for the second of two boxes, the first being of
\* no target class
C9_Witness ==
    /\ app = "main_ml" /\ pc = "hold" /\ HighPins # {}
    /\ Len(frame[1].boxes) = 2
    /\ frame[1].boxes[1].cls \notin DOMAIN CLASS_NAMES

\* C10: a failed read (camera.read() returned None) goes to the backoff and from there to the loop test,
\* which reads again while running; neither step runs the detector or the
\* actuator or changes running, a last-fire time or a pin.
C10_FailedReadRecoverable ==
    [][ /\ (pc = "read" /\ pc' # "read" /\ frame' = None /\ ~exc')
           => /\ pc' = "backoff"
              /\ UNCHANGED <<running, det, last_trigger_time, ml_last_trigger_time,
                             class_pins, pin_states, fired, camera_opened>>
        /\ (pc = "backoff" /\ pc' # "backoff")
           => /\ pc' = "loop"
              /\ UNCHANGED <<running, det, frame, last_trigger_time, ml_last_trigger_time,
                             class_pins, pin_states, fired, camera_opened>>
        /\ (pc = "loop" /\ pc' # "loop" /\ running) => pc' = "read"
      ]_vars

\* C10 witness: a read has failed with a class inside its cooldown, the loop
\* still running
C10_Witness ==
    /\ pc = "backoff" /\ running
    /\ \E c \in ClassNames :
          /\ fired[c] # << >>
          /\ LastTime(c) = Last(fired[c])
          /\ clock - LastTime(c) < trigger_cooldown

\* what self.detect(frame) returned for the tick's frame
TickDetection ==
    IF app = "main" THEN SD_detect(frame, sd_confidence_threshold)
    ELSE ML_detect(frame, ml_confidence_threshold)

\* the tick's detector call is over and it reported no detection
NoDetectionTick == frame # None /\ "detector" \in calls /\ ~TickDetection.detected

\* C11: when the detector reports no detection for a frame, the tick invokes
\* neither the centre test nor the cooldown decision nor the actuator: it goes
\* from the detector call straight to the end of the tick without reading the
\* clock, and no last-fire time, pin level or actuation record changes.
C11_NoDetectionEndsTick ==
    [][ NoDetectionTick
        => /\ calls = {"detector"} /\ calls' \subseteq {"detector"}
           /\ ~det.detected
           /\ pc \notin FirePath /\ pc' \notin FirePath
           /\ (pc = "decide" /\ pc' # "decide")
              => (pc' = "debug" /\ current_time' = current_time)
           /\ ~Mutates
           /\ HighPins = {}
      ]_vars

\* C11 witness: a tick whose frame holds only a box that is no detection has
\* reached its end, a class having fired before
C11_Witness ==
    /\ pc = "sleep" /\ NoDetectionTick
    /\ app = "main_ml" /\ Len(frame[1].boxes) > 0
    /\ \E c \in ClassNames : fired[c] # << >> /\ LastTime(c) = Last(fired[c])

\* where run() is while inside "while self.running:"
LoopPcs == {"loop", "read", "backoff", "detect", "decide", "output_high", "trigger_class",
            "record", "hold", "output_low", "debug", "sleep"}

\* a stop request has been made with the loop running
StopRequested == pc \in LoopPcs /\ ~running

\* the sleeps left in a tick (the pulse and the frame sleep) end inside the
\* sampled clock
StopSlack == (2 + MaxOverrun) * ClockGrain
ClockLeft == clock + StopSlack <= MaxClockTicks * ClockGrain

\* run() is over and cleanup() has released the camera and the pins
RunFinished == pc \in {"done", "raised"} /\ released = {"camera", "gpio"}

\* C12: once a stop request is made with the loop running, the flag stays
\* false, the loop test starts no new tick (it goes to cleanup, so nothing is
\* read after it), and run() eventually runs cleanup and ends.
C12_StopEndsRun ==
    /\ [][ /\ StopRequested => ~running'
           /\ (StopRequested /\ pc = "loop" /\ pc' # "loop") => pc' = "cleanup"
           /\ (StopRequested /\ pc' = "read") => pc = "read"
         ]_vars
    /\ ((StopRequested /\ ClockLeft) ~> RunFinished)

\* C12 witness: the loop was stopped after a squirrel pulse, run() has run
\* cleanup and returned, main() has not exited yet
C12_Witness ==
    /\ pc = "done" /\ ~running /\ released = {"camera", "gpio"}
    /\ fired["squirrel"] # << >>
    /\ exit_code = None

\* run() is over: it returned, or an exception left it
RunOver == pc \in {"done", "returned", "raised"}

\* C13: whenever run() is over, by a stop request, by an exception or
\* because the camera failed to open, camera.stop() and gpio.cleanup() have
\* both been called.
C13_ReleasedOnEveryExit == RunOver => released = {"camera", "gpio"}

\* C14: a stop request in the middle of a tick only clears self.running: the
\* step that clears it changes nothing else and does not leave the tick; the
\* loop is left for cleanup only from the loop test (or by an exception), so
\* the rest of the tick runs, and a pulse in progress is driven low first: no
\* pin is high when cleanup runs.
C14_StopIsCooperative ==
    [][ /\ (running /\ ~running')
           => /\ pc' = pc \/ (pc = "debug" /\ pc' = "sleep")
              /\ UNCHANGED <<camera_opened, clock, frame, det, current_time,
                             last_trigger_time, ml_last_trigger_time, class_pins,
                             pin_states, fired, calls, exc, released, exit_code>>
        /\ (pc \in LoopPcs /\ pc' \notin LoopPcs)
           => /\ pc' = "cleanup"
              /\ (pc = "loop" /\ ~running) \/ exc'
        /\ (pc = "hold" /\ pc' # "hold") => (pc' = "output_low" /\ HighPins' # {})
        /\ (pc = "output_low" /\ pc' # "output_low") => HighPins' = {}
        /\ pc' = "cleanup" => HighPins' = {}
      ]_vars

\* C14 witness: a signal arrived during a tick that fired (no debug window,
\* so no "q" key): the pulse went on to its end and the pin is low again
C14_Witness ==
    /\ ~debug /\ ~running
    /\ pc = "sleep" /\ "actuator" \in calls
    /\ HighPins = {}
    /\ clock - Last(fired[TickClass]) >= pulse_duration

\* nothing of the loop has happened: no frame, no detector or actuator call,
\* no pin high, self.running false
LoopUntouched ==
    /\ ~running
    /\ frame = None /\ calls = {}
    /\ \A c \in ClassNames : fired[c] = << >>
    /\ HighPins = {}

\* C15: when the camera is not open after start(), run() returns at once:
\* the open check leads to the return and nowhere else, run() does nothing
\* after it, so no frame is read, no detector or actuator is called, no pin is
\* driven; self.running is set only behind a passed open check, and start()
\* is not called a second time.
C15_NoCameraNoLoop ==
    [][ /\ (pc = "started" /\ ~camera_opened /\ pc' # pc)
           => /\ pc' = "returned"
              /\ UNCHANGED <<running, camera_opened, clock, frame, det, pin_states,
                             class_pins, fired, calls, exc, released, exit_code>>
        /\ pc = "returned"
           => /\ pc' = "returned"
              /\ UNCHANGED <<running, camera_opened, clock, frame, det, pin_states,
                             class_pins, fired, calls, exc, released>>
        /\ (pc \in {"constructed", "started", "returned"} => LoopUntouched)'
        /\ (running' /\ ~running) => (pc = "opened" /\ camera_opened)
        /\ (pc' = "constructed" \/ pc' = "started") => pc \in {"constructed", pc'}
      ]_vars

\* C15 witness: run() has returned with the camera closed and main() has
\* ended the process
C15_Witness == pc = "returned" /\ ~camera_opened /\ exit_code # None

\* a fatal error ended the program: construction failed, the camera did not
\* open, or an exception left run()
FatalError == pc \in {"not_constructed", "returned", "raised"}

\* C16: a process ended by a fatal error exits with status 1; status 0 is
\* the exit of a run() that was stopped by a stop request.
C16_FatalExitsWithOne ==
    exit_code # None
    => /\ FatalError => exit_code = Some(1)
       /\ exit_code = Some(0) => (pc = "done" /\ ~running)

\* ----------------------------------------- properties of is_in_center
\* is_in_center has returned
Called == fn_out # None

\* ... for a frame and a box
CalledWithBox == Called /\ fn_in[1].bbox # None /\ fn_in[1].frame # None

ArgX == fn_in[1].bbox[1][1]
ArgY == fn_in[1].bbox[1][2]
ArgW == fn_in[1].bbox[1][3]
ArgH == fn_in[1].bbox[1][4]
ArgFrameW == fn_in[1].frame[1].shape[2]
ArgFrameH == fn_in[1].frame[1].shape[1]

\* the box's centre (cx, cy)
ArgCx == ArgX + ArgW \div 2
ArgCy == ArgY + ArgH \div 2

\* half of rw = int(W * thr) and of rh = int(H * thr), rounded down
HalfRw == ((ArgFrameW * fn_in[1].thr) \div 100) \div 2
HalfRh == ((ArgFrameH * fn_in[1].thr) \div 100) \div 2

\* the centre region [RegionLoX, RegionHiX] x [RegionLoY, RegionHiY]
RegionLoX == ArgFrameW \div 2 - HalfRw
RegionHiX == ArgFrameW \div 2 + HalfRw
RegionLoY == ArgFrameH \div 2 - HalfRh
RegionHiY == ArgFrameH \div 2 + HalfRh

\* C17: for a frame and a box, is_in_center is true exactly when cx lies in
\* [W//2 - rw//2, W//2 + rw//2] and cy in [H//2 - rh//2, H//2 + rh//2], and
\* SquirrelDetector and MLDetector return the same.
C17_CenterFormula ==
    CalledWithBox
    => LET expected == /\ RegionLoX <= ArgCx /\ ArgCx <= RegionHiX
                       /\ RegionLoY <= ArgCy /\ ArgCy <= RegionHiY
       IN  fn_out[1].sd = expected /\ fn_out[1].ml = expected

\* C17 witness: both detectors accepted a box whose centre lies on the right
\* edge of a region wider than one pixel
C17_Witness ==
    /\ CalledWithBox
    /\ fn_out[1].sd /\ fn_out[1].ml
    /\ HalfRw > 0 /\ ArgCx = RegionHiX

\* C18: is_in_center returns False when the box is None or the frame is None.
C18_FailsClosed ==
    (Called /\ (fn_in[1].bbox = None \/ fn_in[1].frame = None))
    => (~fn_out[1].sd /\ ~fn_out[1].ml)

\* C18 witness: is_in_center has returned False for a frame without a box
C18_Witness ==
    /\ Called /\ fn_in[1].bbox = None /\ fn_in[1].frame # None
    /\ ~fn_out[1].sd /\ ~fn_out[1].ml

\* the box's rectangle [x, x+w] x [y, y+h] shares no point with the region
BoxDisjoint ==
    \/ ArgX + ArgW < RegionLoX \/ RegionHiX < ArgX
    \/ ArgY + ArgH < RegionLoY \/ RegionHiY < ArgY

\* C19: a box with w, h > 0 whose rectangle is disjoint from the centre
\* region is not in the centre; for 640x480, threshold 0.3 and the box
\* (10, 10, 50, 50) the region is x in [224, 416], y in [168, 312] and the
\* result is False.
C19_DisjointNotCentred ==
    /\ (CalledWithBox /\ ArgW > 0 /\ ArgH > 0 /\ BoxDisjoint)
       => (~fn_out[1].sd /\ ~fn_out[1].ml)
    /\ (Called /\ fn_in = Some(ScenarioB))
       => /\ <<RegionLoX, RegionHiX, RegionLoY, RegionHiY>> = <<224, 416, 168, 312>>
          /\ BoxDisjoint
          /\ ~fn_out[1].sd

\* C19 witness: is_in_center has returned for the off-centre box of the
\* 640x480 scenario
C19_Witness == Called /\ fn_in = Some(ScenarioB) /\ ~fn_out[1].sd

\* C20: a box whose centre is the frame centre (W//2, H//2) is in the centre,
\* whatever the frame size and the threshold; for 640x480, threshold 0.5 and
\* the box (270, 190, 100, 100) the result is True.
C20_FrameCentreCentred ==
    /\ (CalledWithBox /\ ArgCx = ArgFrameW \div 2 /\ ArgCy = ArgFrameH \div 2)
       => (fn_out[1].sd /\ fn_out[1].ml)
    /\ (Called /\ fn_in = Some(ScenarioA))
       => (<<ArgCx, ArgCy>> = <<320, 240>> /\ fn_out[1].sd)

\* C20 witness: is_in_center has returned for the centred box of the 640x480
\* scenario
C20_Witness == Called /\ fn_in = Some(ScenarioA) /\ fn_out[1].sd

\* ---------------------------------------- properties of the centre region
RegionComputed == pc = "center_region_returned"

\* on one axis of size dim, the bounds lo..hi stay inside the frame, contain
\* the integer centre dim // 2 and are symmetric about it, which is within
\* one pixel of the continuous centre: lo + hi is dim or dim - 1
AxisInvariant(dim, lo, hi) ==
    /\ 0 <= lo /\ lo <= dim \div 2 /\ dim \div 2 <= hi /\ hi <= dim
    /\ lo + hi = 2 * (dim \div 2)
    /\ lo + hi \in {dim - 1, dim}

\* C21: for every frame width and height >= 1 and every threshold in (0, 1],
\* the region bounds satisfy 0 <= start <= dim//2 <= end <= dim and
\* start + end = 2 * (dim//2); the rectangle the debug view draws is the same
\* region.
C21_RegionGeometry ==
    RegionComputed
    => LET r == fn_out[1].gate
           d == fn_out[1].drawn
       IN  /\ AxisInvariant(fn_in[1].shape[2], r[1], r[2])
           /\ AxisInvariant(fn_in[1].shape[1], r[3], r[4])
           /\ d = <<r[1], r[3], r[2], r[4]>>

\* C21 witness: the region of a frame of odd width, with an odd region width
\* of 3 pixels or more, strictly inside the frame
C21_Witness ==
    /\ RegionComputed
    /\ fn_in[1].shape[2] % 2 = 1
    /\ ((fn_in[1].shape[2] * fn_in[1].thr) \div 100) % 2 = 1
    /\ fn_out[1].gate[1] > 0
    /\ fn_out[1].gate[2] > fn_out[1].gate[1]
    /\ fn_out[1].gate[2] < fn_in[1].shape[2]

\* -------------------------------------- properties of MLDetector.detect
DetectReturned == pc = "detect_returned"

ArgBoxes == fn_in[1].frame[1].boxes

\* the places of the boxes of a target class at or above the threshold
Candidates ==
    {i \in 1..Len(ArgBoxes) :
        ArgBoxes[i].cls \in {0, 1, 2} /\ ArgBoxes[i].conf >= fn_in[1].conf}

\* the first of the candidates of highest confidence
IsChosen(i) ==
    /\ i \in Candidates
    /\ \A j \in Candidates : ArgBoxes[j].conf <= ArgBoxes[i].conf
    /\ \A j \in Candidates : ArgBoxes[j].conf = ArgBoxes[i].conf => i <= j

TargetName(cls) == IF cls = 0 THEN "squirrel" ELSE IF cls = 1 THEN "skunk" ELSE "raccoon"

\* C22: detect reports the target-class box of highest confidence among
\* those at or above the confidence threshold, the first of them in
\* iteration order when several share that confidence, with its class and
\* confidence; it reports no detection when there is no such box, so a box
\* of another class is never reported.
C22_BestDetection ==
    DetectReturned
    => IF Candidates = {}
       THEN fn_out[1] = NoDetection
       ELSE \E i \in Candidates :
               /\ IsChosen(i)
               /\ fn_out[1] = [detected |-> TRUE,
                                bbox |-> Some(<<10 * i, 10 * i, 20, 20>>),
                                confidence |-> ArgBoxes[i].conf,
                                class_name |-> Some(TargetName(ArgBoxes[i].cls))]

\* C22 witness: detect reported the second box of a result whose first box
\* is of no target class with a higher confidence and whose third box is of
\* another target class with the confidence of the second
C22_Witness ==
    /\ DetectReturned
    /\ Len(ArgBoxes) = 3
    /\ ArgBoxes[1].cls = 7 /\ ArgBoxes[1].conf > ArgBoxes[2].conf
    /\ ArgBoxes[3].cls \in {0, 1, 2} /\ ArgBoxes[3].cls # ArgBoxes[2].cls
    /\ ArgBoxes[3].conf = ArgBoxes[2].conf
    /\ fn_out[1].detected /\ fn_out[1].bbox = Some(<<20, 20, 20, 20>>)

\* ------------------------------------------- properties of the cameras
\* C23: start() on a started camera creates no capture handle and stop() on
\* a camera that was never started or is stopped releases none: the handles
\* stay as they are, for every camera class.
C23_StartStopIdempotent ==
    [][ /\ (obj'.last = "start" /\ obj'.n # obj.n /\ obj.phase = "started")
           => (obj'.handles = obj.handles /\ obj'.cap = obj.cap)
        /\ (obj'.last = "stop" /\ obj'.n # obj.n /\ obj.phase \in {"new", "stopped"})
           => (obj'.handles = obj.handles /\ obj'.cap = obj.cap)
        /\ \A h \in 1..Len(obj'.handles) : obj'.handles[h].releases <= 1
      ]_vars

\* C28: a VideoCameraInterface reports is_opened() True exactly after a
\* start() that opened its source and no stop() since: False before any
\* start(), False after stop(), False after a start() that failed; read()
\* returns None whenever the camera is not started.
C28_VideoLifecycle ==
    obj.kind = "video"
    => /\ obj.last = "is_opened"
          => (obj.ret = "True" <=> (obj.phase = "started" /\ obj.source_ok))
       /\ (obj.last = "read" /\ obj.phase # "started") => obj.ret = "None"
       /\ (obj.last = "stop") => ~video_is_opened(obj)

\* C28 witness: a video camera that was opened and stopped answers
\* is_opened() with False
C28_Witness ==
    /\ obj.kind = "video" /\ obj.source_ok
    /\ obj.phase = "stopped" /\ obj.last = "is_opened" /\ obj.ret = "False"
    /\ Len(obj.handles) = 1 /\ obj.handles[1].releases = 1

\* C29: VideoCameraInterface.start() on a source that cannot be opened raises
\* ValueError, and the camera reports is_opened() False afterwards.
C29_StartFailureRaises ==
    (obj.kind = "video" /\ ~obj.source_ok /\ obj.last = "start")
    => (obj.ret = "ValueError" /\ ~video_is_opened(obj))

\* ---------------------------------------------- properties of the loop
\* C24: self.running is False after construction and until run() has found
\* the camera open; it becomes True only in run(), behind the passed open
\* check; stop() and the signal handler can run in every state of a live
\* application, leave it False whatever it was, and change neither the
\* camera nor a pin nor a last-fire time.
C24_RunningFlag ==
    [][ /\ (pc \in {"constructed", "started", "opened"} => ~running)
        /\ (running' /\ ~running)
           => (pc = "opened" /\ camera_opened /\ pc' = "loop")
        /\ (pc \in {"constructed", "started", "opened"} \cup LoopPcs \cup {"cleanup"})
           => ENABLED Signal
        /\ Signal => ~running'
        /\ (running /\ ~running')
           => UNCHANGED <<camera_opened, pin_states, class_pins, last_trigger_time,
                          ml_last_trigger_time, fired, released>>
      ]_vars

\* C24 witness: the flag was cleared while a pin was high, and the pin and
\* the camera are as they were
C24_Witness ==
    /\ pc = "output_low" /\ ~running
    /\ HighPins # {} /\ camera_opened
    /\ LastTime(TickClass) = 0

\* ------------------------------------------ properties of the mock GPIO
\* the call that led to this state
GpioCalled(name) == pc = "gpio" /\ obj.last = name

\* the level the calls made so far leave on pin p
ExpectedLevel(p) == IF obj.last_out[p] = None THEN FALSE ELSE obj.last_out[p][1]

\* C25: after any sequence of setup, output and cleanup calls get_state(pin)
\* returns the value of the most recent output on the pin since its last
\* cleanup, and False if there was none; an output on a pin never set up
\* creates the pin, and a setup of an existing pin keeps its level.
C25_PinState ==
    pc = "gpio" =>
       /\ \A p \in GpioPins : mock_get_state(obj, p).ret = Some(ExpectedLevel(p))
       /\ GpioCalled("get_state") => obj.ret = Some(ExpectedLevel(obj.args[1]))
       /\ GpioCalled("output") => obj.args[1] \in DictKeys(obj.pins)
       /\ GpioCalled("setup") => obj.args[1] \in DictKeys(obj.pins)

\* C25 witness: a pin that had been driven high was set up again and still
\* reads True
C25_Witness ==
    /\ GpioCalled("setup")
    /\ obj.args[1] \in obj.had
    /\ obj.out_before[obj.args[1]] = Some(TRUE)
    /\ mock_get_state(obj, obj.args[1]).ret = Some(TRUE)

\* the step is a call of the named method
GpioCall(name) == pc = "gpio" /\ obj'.n = obj.n + 1 /\ obj'.last = name

\* the level of pin p before the call: False for a fresh pin
PreviousLevel(p) == DictGet(obj.pins, p, FALSE)

\* the callbacks registered for pin p before the call
Registered(p) == DictGet(obj.callbacks, p, << >>)

\* C26: output(pin, v) invokes each registered callback of the pin once, in
\* order, with (pin, v) when v differs from the pin's previous level (False
\* for a fresh pin), and invokes nothing when v equals it.
C26_CallbacksOnChange ==
    [][ GpioCall("output") =>
          LET pin == obj'.args[1]
              v   == obj'.args[2]
          IN  /\ v # PreviousLevel(pin)
                 => obj'.invoked = [i \in 1..Len(Registered(pin)) |->
                                       <<Registered(pin)[i], pin, v>>]
              /\ v = PreviousLevel(pin) => obj'.invoked = << >>
              /\ PreviousLevel(pin) = ExpectedLevel(pin)
      ]_vars

\* C26 witness: a pin that has a registered callback and was driven high was
\* driven high again, and no callback was invoked
C26_Witness ==
    /\ GpioCalled("output") /\ obj.invoked = << >>
    /\ obj.args[2]
    /\ obj.out_before[obj.args[1]] = Some(TRUE)
    /\ DictGet(obj.callbacks, obj.args[1], << >>) # << >>

\* C27: cleanup(pin) of a known pin removes that pin and its callbacks and
\* leaves every other pin's level and callbacks as they were; cleanup()
\* removes all pins and all callbacks; cleanup of an unknown pin changes
\* nothing.
C27_Cleanup ==
    [][ GpioCall("cleanup") =>
          LET pin == obj'.args[1]
          IN  /\ obj'.invoked = << >>
              /\ pin = None => obj'.pins = {} /\ obj'.callbacks = {}
              /\ (pin # None /\ pin[1] \in DictKeys(obj.pins))
                 => /\ obj'.pins = {e \in obj.pins : e[1] # pin[1]}
                    /\ obj'.callbacks = {e \in obj.callbacks : e[1] # pin[1]}
              /\ (pin # None /\ pin[1] \notin DictKeys(obj.pins))
                 => obj'.pins = obj.pins /\ obj'.callbacks = obj.callbacks
      ]_vars

\* C27 witness: a known pin was cleaned up while another pin is high and
\* has a callback
C27_Witness ==
    /\ GpioCalled("cleanup") /\ obj.args[1] # None
    /\ obj.args[1][1] \in obj.had
    /\ obj.args[1][1] \notin DictKeys(obj.pins)
    /\ \E e \in obj.pins : e[2] /\ DictGet(obj.callbacks, e[1], << >>) # << >>

\* --------------------------------- properties of the class-to-pin mapping
\* C30: from setup_classes to cleanup the GPIO object and the application
\* hold the mapping that was handed over at construction: no trigger_class,
\* get_pin_state or add_callback changes it, and neither does a change the
\* caller makes to its own dictionary afterwards.
C30_MappingFixed ==
    (pc = "multi" /\ obj.phase = "setup") =>
       /\ obj.m.heap[obj.m.gpio_class_pins] = obj.at_setup
       /\ obj.m.heap[obj.m.app_class_pins] = obj.at_setup

\* C30 witness: the caller has changed its dictionary, a class it changed
\* was triggered with a callback registered, and the pulse went to the pin
\* given at setup
C30_Witness ==
    /\ pc = "multi" /\ obj.phase = "setup" /\ obj.mutated
    /\ obj.last = "trigger_class"
    /\ Len(obj.m.events) > 3
    /\ DictGet(obj.m.heap[obj.m.caller], obj.args[1], 0)
          # DictGet(obj.at_setup, obj.args[1], 0)
    /\ obj.m.events[1] = <<"pin", DictGet(obj.at_setup, obj.args[1], 0), TRUE>>

\* ------------------------------------ properties of the backend selection
\* the platform is a Raspberry Pi by its cpuinfo
OnPi == fn_in[1].cpuinfo.status = "ok"
        /\ fn_in[1].cpuinfo.words \cap {"Raspberry Pi", "BCM"} # {}

\* the gpiozero flag of the module the called function's Pi backend is in
GpiozeroThere ==
    IF fn_in[1].fn = "create_gpio_interface"
    THEN fn_in[1].gpio_available ELSE fn_in[1].multi_available

MockBackend ==
    IF fn_in[1].fn = "create_gpio_interface"
    THEN "MockGPIOInterface" ELSE "MockMultiClassGPIO"

\* C31: create_gpio_interface and create_multiclass_gpio always return a
\* backend and never raise ImportError; the backend is the mock one when the
\* platform is not a Raspberry Pi, and when it is one without gpiozero.
C31_BackendSelection ==
    pc = "create_gpio_done" =>
       /\ fn_out[1].ret = "returned"
       /\ fn_out[1].value # None
       /\ (~OnPi \/ ~GpiozeroThere) => fn_out[1].value = Some(MockBackend)

\* C31 witness: on a Raspberry Pi without gpiozero the mock backend came back
C31_Witness ==
    /\ pc = "create_gpio_done"
    /\ OnPi /\ ~GpiozeroThere
    /\ fn_out[1] = [ret |-> "returned", value |-> Some(MockBackend)]

\* ------------------------------------------ properties of trigger_class
\* the step is a call of the named method of the multi-class GPIO object
MultiCall(name) == pc = "multi" /\ obj'.n = obj.n + 1 /\ obj'.last = name

\* the pin writes and callback invocations among the events, in order
IsPulseEvent(e) == e[1] # "sleep"
PulseEvents(events) == SelectSeq(events, IsPulseEvent)

\* callback(class, pin, state) for each callback in the list, in order
Invocations(cbs, c, pin, state) ==
    [i \in 1..Len(cbs) |-> <<"callback", cbs[i], c, pin, state>>]

\* C32: trigger_class on a configured class drives the pin high, calls the
\* class's callbacks with True, drives the pin low and calls the callbacks
\* with False, in that order and once each, and get_pin_state of the class is
\* False on return; on a class without a configured pin no pin changes and
\* no callback is called.
C32_TriggerPulse ==
    [][ MultiCall("trigger_class") =>
          LET c == obj'.args[1]
              mapping == obj.m.heap[obj.m.gpio_class_pins]
              cbs == DictGet(obj.m.callbacks, c, << >>)
          IN  IF c \in DictKeys(mapping)
              THEN LET pin == DictGet(mapping, c, 0)
                   IN  /\ PulseEvents(obj'.m.events)
                            = <<<<"pin", pin, TRUE>>>>
                              \o Invocations(cbs, c, pin, TRUE)
                              \o <<<<"pin", pin, FALSE>>>>
                              \o Invocations(cbs, c, pin, FALSE)
                       /\ multi_get_pin_state(obj'.m, c).ret = Some(FALSE)
                       /\ \A e \in obj.m.pin_states :
                             e[1] # pin => e \in obj'.m.pin_states
              ELSE /\ obj'.m.events = << >>
                   /\ obj'.m.pin_states = obj.m.pin_states
      ]_vars

\* C32 witness: a configured class with a registered callback was triggered
C32_Witness ==
    /\ pc = "multi" /\ obj.last = "trigger_class"
    /\ obj.args[1] \in DictKeys(obj.m.heap[obj.m.gpio_class_pins])
    /\ DictGet(obj.m.callbacks, obj.args[1], << >>) # << >>
    /\ Len(obj.m.events) >= 5
    /\ multi_get_pin_state(obj.m, obj.args[1]).ret = Some(FALSE)

C34_FlagClearedAtExit == RunOver => ~running

\* -------------------------------------- properties of the class of a tick
\* the boxes of the tick's frame that are target detections
TickTargets ==
    IF frame = None THEN {}
    ELSE {i \in 1..Len(frame[1].boxes) :
             /\ frame[1].boxes[i].cls \in DOMAIN CLASS_NAMES
             /\ frame[1].boxes[i].conf >= ml_confidence_threshold}

\* box i is the frame's highest-confidence target detection (the first of
\* equals)
TickBest(i) ==
    /\ i \in TickTargets
    /\ \A j \in TickTargets :
          \/ frame[1].boxes[j].conf < frame[1].boxes[i].conf
          \/ frame[1].boxes[j].conf = frame[1].boxes[i].conf /\ j >= i

TickBoxClass(i) == CLASS_NAMES[frame[1].boxes[i].cls]

TickBoxCentred(i) ==
    LET xyxy == frame[1].boxes[i].xyxy
    IN  ML_is_in_center(frame,
                        Some(<<xyxy[1], xyxy[2], xyxy[3] - xyxy[1], xyxy[4] - xyxy[2]>>),
                        center_threshold)

\* C35: a tick of the multi-class loop fires at most once, and only for the
\* class of the frame's single highest-confidence target detection, when
\* that detection is centred and the class's cooldown has elapsed; another
\* detection of the frame never fires in its place.
C35_OneClassPerTick ==
    [][ (app = "main_ml" /\ fired' # fired)
          => /\ pc = "trigger_class" /\ "actuator" \notin calls
             /\ \E i \in TickTargets :
                   /\ TickBest(i)
                   /\ TickBoxCentred(i)
                   /\ clock - LastTime(TickBoxClass(i)) >= trigger_cooldown
                   /\ fired' = [fired EXCEPT ![TickBoxClass(i)] = Append(@, clock)]
      ]_vars

\* C35 witness: the frame holds a centred squirrel of the highest confidence
\* and a centred skunk; the squirrel is in cooldown, the skunk has never
\* fired, and the tick is past its decision without a call of the actuator
C35_Witness ==
    /\ app = "main_ml" /\ pc = "debug"
    /\ "scheduler" \in calls /\ "actuator" \notin calls
    /\ \E i, j \in TickTargets :
          /\ TickBest(i) /\ TickBoxCentred(i) /\ TickBoxClass(i) = "squirrel"
          /\ TickBoxCentred(j) /\ TickBoxClass(j) = "skunk"
    /\ fired["squirrel"] # << >> /\ fired["skunk"] = << >>
    /\ clock - LastTime("squirrel") < trigger_cooldown
    /\ clock - LastTime("skunk") >= trigger_cooldown

\* C36: the multi-class loop stores a last-fire time for a class only on a
\* tick that emitted a pulse on the class's pin; for a class without a
\* configured pin trigger_class drives nothing, and the tick stores no time.
C36_RecordedOnlyWithPulse ==
    [][ \A c \in ClassNames :
          (app = "main_ml" /\ pc = "record"
             /\ Get(ml_last_trigger_time', c, 0) # Get(ml_last_trigger_time, c, 0))
          => c \in DOMAIN class_pins
      ]_vars

\* ------------------------------------- properties of the video camera
\* the step is a call of the named method of the camera object
CamCall(name) == pc = "camera" /\ obj'.n = obj.n + 1 /\ obj'.last = name

\* C37: after a start() of a VideoCameraInterface that failed, the camera is
\* not started: the next start() opens the source again, and raises
\* ValueError again when the source still cannot be opened.
C37_FailedStartRetries ==
    [][ (obj.kind = "video" /\ obj.phase = "failed" /\ CamCall("start"))
          => /\ Len(obj'.handles) = Len(obj.handles) + 1
             /\ ~obj.source_ok => obj'.ret = "ValueError"
      ]_vars

\* C38: read() of a started VideoCameraInterface returns the next frame;
\* when the read fails at the end of the file it rewinds to frame 0 and reads
\* once more, and returns None only if that read fails too; with at least
\* one frame in an opened file it never returns None.
C38_ReadLoopsVideo ==
    [][ (obj.kind = "video" /\ CamCall("read")
           /\ obj.phase = "started" /\ obj.source_ok)
          => /\ obj.pos < obj.frames
                => (obj'.ret = "frame" /\ ~obj'.rewound /\ obj'.pos = obj.pos + 1)
             /\ obj.pos >= obj.frames
                => /\ obj'.rewound
                   /\ obj'.ret = "None" <=> obj.frames = 0
                   /\ obj'.ret = "frame" => obj'.pos = 1
             /\ obj.frames >= 1 => obj'.ret = "frame"
      ]_vars

\* C38 witness: a read at the end of a file of MaxVideoFrames frames rewound
\* and returned the first frame
C38_Witness ==
    /\ obj.kind = "video" /\ obj.last = "read" /\ obj.phase = "started"
    /\ obj.frames = MaxVideoFrames
    /\ obj.rewound /\ obj.ret = "frame" /\ obj.pos = 1

\* ------------------------------- properties of SquirrelDetector.detect
SDetectReturned == pc = "sd_detect_returned"

\* C39: SquirrelDetector.detect returns a confidence in [0, 1]; detected is
\* True only together with a bounding box and a confidence that is at least
\* the confidence threshold; for a None or empty frame it returns
\* (False, None, 0.0).  The confidence is the fraction num / den, the
\* threshold a percentage.
C39_DetectResult ==
    SDetectReturned =>
       LET r == fn_out[1]
           num == r.confidence[1]
           den == r.confidence[2]
       IN  /\ den > 0 /\ 0 <= num /\ num <= den
           /\ r.detected => (r.bbox # None /\ 100 * num >= fn_in[1].conf * den)
           /\ EmptyFrame(fn_in[1].frame)
              => (~r.detected /\ r.bbox = None /\ num = 0)

\* C39 witness: a contour of a tenth of the frame with a square bounding box
\* is detected with confidence 1.0, the boosted value capped
C39_Witness ==
    /\ SDetectReturned /\ fn_out[1].detected
    /\ fn_out[1].bbox = Some(<<0, 0, 1, 1>>)
    /\ fn_out[1].confidence[1] = fn_out[1].confidence[2]
    /\ fn_in[1].frame[1].contours[1].area * 10
          = fn_in[1].frame[1].shape[1] * fn_in[1].frame[1].shape[2]

====
